---- MODULE Spec2Model ----
(***************************************************************************)
(* Model of build_tool/src/main.rs: the incremental build orchestrator of  *)
(* the macOS application bundle.  One run of build() is a sequence of      *)
(* steps (pc); external commands are processes that exit on their own.     *)
(* The filesystem is abstracted to the paths the orchestrator reads and    *)
(* writes: modification times of files, existence of directories, and the  *)
(* content of the recorded frontend build-parameter snapshot.              *)
(***************************************************************************)
EXTENDS Integers, Sequences, FiniteSets, TLC

(* ------------------------------ bounds -------------------------------- *)
MaxTime == 3
MaxRuns == 2
MaxTouches == 1
MaxFaults == 1

Absent == 0 - 1

(* ------------------------------ paths --------------------------------- *)
F_pkg == "webapp/package.json"
F_lock == "webapp/package-lock.json"
F_index == "webapp/index.html"
F_src1 == "webapp/src/main.ts"
F_src2 == "webapp/src/lib/util.ts"
F_pub1 == "webapp/public/logo.svg"
F_icon == "webapp/public/favicon/favicon-512.png"
F_vite_ts == "webapp/vite.config.ts"
F_vite_js == "webapp/vite.config.js"
F_vite_mts == "webapp/vite.config.mts"
F_vite_mjs == "webapp/vite.config.mjs"
F_pyproj == "backend/pyproject.toml"
F_uvlock == "backend/uv.lock"
F_entry == "backend/macapp_entry.py"
F_app1 == "backend/app/main.py"
F_app2 == "backend/app/api/routes.py"
S_fdeps == ".mac_build/stamps/webapp_deps.stamp"
S_fbuild == ".mac_build/stamps/webapp_build.stamp"
S_bdeps == ".mac_build/stamps/backend_deps.stamp"
S_bbuild == ".mac_build/stamps/backend_build.stamp"
F_env == ".mac_build/stamps/webapp_build.env"

D_node_modules == "webapp/node_modules"
D_dist == "webapp/dist"
D_src == "webapp/src"
D_src_lib == "webapp/src/lib"
D_public == "webapp/public"
D_favicon == "webapp/public/favicon"
D_venv == "backend/.venv"
D_app == "backend/app"
D_app_api == "backend/app/api"
D_out == "dist"
D_work == ".mac_build"
D_stamps == ".mac_build/stamps"
D_backend_out == ".mac_build/backend_dist"
D_product == ".mac_build/backend_dist/backend_server"
D_swift_home == ".mac_build/swift_home"
D_bundle == "dist/App.app"
D_root == "."

ViteConfigs == {F_vite_ts, F_vite_js, F_vite_mts, F_vite_mjs}

\* The icon source files build_app_icon looks for (main.rs 1199-1203); they
\* lie under webapp/public, which the frontend build check walks.
IconCandidates ==
  {F_icon, "webapp/public/favicon/apple-touch-icon.png",
   "webapp/public/favicon/favicon-256.png"}
FrontendInputs ==
  {F_pkg, F_lock, F_index, F_src1, F_src2, F_pub1} \cup ViteConfigs
    \cup IconCandidates
BackendInputs == {F_pyproj, F_uvlock, F_entry, F_app1, F_app2}
Stamps == {S_fdeps, S_fbuild, S_bdeps, S_bbuild}
Files == FrontendInputs \cup BackendInputs \cup Stamps

SourceDirs == {D_src, D_src_lib, D_public, D_favicon, D_app, D_app_api}
WorkDirs == {D_work, D_stamps, D_backend_out, D_product, D_swift_home}
Dirs ==
  SourceDirs \cup WorkDirs
    \cup {D_node_modules, D_dist, D_venv, D_out, D_bundle}

\* The directory holding each file, and each directory's parent.
DirOf(f) ==
  CASE f \in {F_src1} -> D_src
    [] f \in {F_src2} -> D_src_lib
    [] f \in {F_pub1} -> D_public
    [] f \in IconCandidates -> D_favicon
    [] f \in {F_app1} -> D_app
    [] f \in {F_app2} -> D_app_api
    [] f \in Stamps \cup {F_env} -> D_stamps
    [] OTHER -> D_root

ParentDir(d) ==
  CASE d = D_src_lib -> D_src
    [] d = D_favicon -> D_public
    [] d = D_app_api -> D_app
    [] d \in {D_stamps, D_backend_out, D_swift_home} -> D_work
    [] d = D_product -> D_backend_out
    [] d = D_bundle -> D_out
    [] OTHER -> D_root

\* The ten entries of `sizes` in build_app_icon (main.rs 1227-1238)
IconSizes == 10

Stages == {"fdeps", "fbuild", "bdeps", "bbuild"}
Kinds == {"fe", "be", "sw"}

VARIABLES
  cfg,      \* Config (main.rs 147-167), after run()'s dev_mode rewrite
  missing,  \* the commands that are not on PATH
  now,      \* the filesystem clock
  mt,       \* modification time of each file, Absent when it does not exist
  dirs,     \* the directories that exist
  envc,     \* content of webapp_build.env: "none" (no file), "cur", "old"
  wrapper,  \* whether the wrapper executable (wrapper_bin) exists
  iconset,  \* how many resized images .mac_build/appicon.iconset holds
  bundle,   \* what the assembled bundle holds
  pc,       \* position of the orchestrator in run()/build()
  tasks,    \* the Vec<Task> of build(): kinds in registration order
  waited,   \* the tasks the wait loop has waited on, in order
  child,    \* state of each spawned process
  exits,    \* the order in which spawned processes exited
  log,      \* commands and steps of this run, in order (announced when dry)
  result,   \* outcome of this run
  failed,   \* the command, task or artifact the error of this run names
  written,  \* files this run has written
  eval,     \* staleness verdict computed for each stage in this run
  run,      \* number of the run
  prev,     \* summary of the previous run
  orphans,  \* the processes of earlier runs that are still running: the run
            \* and the kind of each
  touched,  \* the edits of inputs, in order: the run, the file, and the
            \* tasks spawned and not yet waited on at that time
  faultsLeft,   \* how many more external commands fail
  runsLeft,     \* how many more runs follow
  touchesLeft   \* how many more edits of inputs happen

vars == <<cfg, missing, now, mt, dirs, envc, wrapper, iconset, bundle, pc,
          tasks, waited, child,
          exits, log, result, failed, written, eval, run, prev, orphans,
          touched, faultsLeft, runsLeft, touchesLeft>>

fsVars == <<mt, dirs, envc, wrapper, iconset, bundle>>
budget == <<faultsLeft, runsLeft, touchesLeft>>

\* An external command that fails uses up one of the failures of the behaviour.
Outcome(ok) ==
  /\ ok \/ faultsLeft > 0
  /\ faultsLeft' = IF ok THEN faultsLeft ELSE faultsLeft - 1

(* --------------------------- staleness oracle ------------------------- *)
IsFile(f) == mt[f] /= Absent
IsDir(d) == d \in dirs

\* A faulty comparison that takes an equal time for a newer one.
file_newer_than_or_equal(file, stamp) ==
  IF ~IsFile(file) THEN FALSE
  ELSE IF ~IsFile(stamp) THEN TRUE
  ELSE mt[file] >= mt[stamp]

\* file_newer_than (main.rs 1027-1037)
file_newer_than(file, stamp) ==
  IF ~IsFile(file) THEN FALSE
  ELSE IF ~IsFile(stamp) THEN TRUE
  ELSE mt[file] > mt[stamp]

FilesIn(d) == {f \in Files : DirOf(f) = d /\ IsFile(f)}
SubdirsIn(d) == {s \in Dirs : ParentDir(s) = d /\ IsDir(s)}

\* The stack walk of dir_has_newer_than (main.rs 1048-1064)
RECURSIVE WalkHasNewer(_, _)
WalkHasNewer(stack, stampTime) ==
  IF stack = {} THEN FALSE
  ELSE LET d == CHOOSE x \in stack : TRUE
       IN  (\E f \in FilesIn(d) : mt[f] > stampTime)
           \/ WalkHasNewer((stack \ {d}) \cup SubdirsIn(d), stampTime)

\* A faulty walk that does not descend into the subdirectories.
dir_has_newer_than_shallow(dir, stamp) ==
  IF ~IsDir(dir) THEN FALSE
  ELSE IF ~IsFile(stamp) THEN TRUE
  ELSE \E f \in FilesIn(dir) : mt[f] > mt[stamp]

\* dir_has_newer_than (main.rs 1039-1065)
dir_has_newer_than(dir, stamp) ==
  IF ~IsDir(dir) THEN FALSE
  ELSE IF ~IsFile(stamp) THEN TRUE
  ELSE WalkHasNewer({dir}, mt[stamp])

\* lock_file (main.rs 375-378)
lock_file_present == IsFile(F_lock)

\* need_npm_install (main.rs 381-402)
need_npm_install ==
  \/ ~IsDir(D_node_modules)
  \/ ~IsFile(S_fdeps)
  \/ file_newer_than(F_pkg, S_fdeps)
  \/ (lock_file_present /\ file_newer_than(F_lock, S_fdeps))

\* compute_need_webapp_build (main.rs 1067-1133)
compute_need_webapp_build ==
  IF ~IsDir(D_dist) THEN TRUE
  ELSE IF ~IsFile(S_fbuild) THEN TRUE
  ELSE IF envc = "none" THEN TRUE
  ELSE IF envc /= "cur" THEN TRUE
  ELSE IF file_newer_than(F_pkg, S_fbuild) THEN TRUE
  ELSE IF lock_file_present /\ file_newer_than(F_lock, S_fbuild) THEN TRUE
  ELSE IF file_newer_than(F_index, S_fbuild) THEN TRUE
  ELSE IF dir_has_newer_than(D_src, S_fbuild) THEN TRUE
  ELSE IF dir_has_newer_than(D_public, S_fbuild) THEN TRUE
  ELSE \E c \in ViteConfigs : IsFile(c) /\ file_newer_than(c, S_fbuild)

\* A faulty check that does not look for the stamp.
need_uv_sync_no_stamp_check ==
  \/ ~IsDir(D_venv)
  \/ file_newer_than(F_pyproj, S_bdeps)
  \/ (IsFile(F_uvlock) /\ file_newer_than(F_uvlock, S_bdeps))

\* need_uv_sync (main.rs 495-514)
need_uv_sync ==
  \/ ~IsDir(D_venv)
  \/ ~IsFile(S_bdeps)
  \/ file_newer_than(F_pyproj, S_bdeps)
  \/ (IsFile(F_uvlock) /\ file_newer_than(F_uvlock, S_bdeps))

\* A faulty check that rebuilds when the two stamps have the same time.
compute_need_backend_pyinstaller_ge ==
  IF ~IsDir(D_product) THEN TRUE
  ELSE IF ~IsFile(S_bbuild) THEN TRUE
  ELSE IF IsFile(S_bdeps) /\ mt[S_bdeps] >= mt[S_bbuild] THEN TRUE
  ELSE IF file_newer_than(F_entry, S_bbuild) THEN TRUE
  ELSE dir_has_newer_than(D_app, S_bbuild)

\* compute_need_backend_pyinstaller (main.rs 1135-1164)
compute_need_backend_pyinstaller ==
  IF ~IsDir(D_product) THEN TRUE
  ELSE IF ~IsFile(S_bbuild) THEN TRUE
  ELSE IF IsFile(S_bdeps) /\ mt[S_bdeps] > mt[S_bbuild] THEN TRUE
  ELSE IF file_newer_than(F_entry, S_bbuild) THEN TRUE
  ELSE dir_has_newer_than(D_app, S_bbuild)

\* The verdict of the staleness check of a stage, before the forced flag.
Need(s) ==
  CASE s = "fdeps" -> need_npm_install
    [] s = "fbuild" -> compute_need_webapp_build
    [] s = "bdeps" -> need_uv_sync
    [] s = "bbuild" -> compute_need_backend_pyinstaller

Verdict(s) == IF Need(s) THEN "stale" ELSE "fresh"

(* ------------------------------ config -------------------------------- *)
Flags == {"clean", "force_frontend", "force_backend", "force_swift",
          "skip_frontend", "skip_backend", "skip_swift", "dev_mode",
          "dry_run"}

\* The string fields of Config that go into Info.plist, with the defaults of
\* Config::from_env (main.rs 173-176).
DefaultMeta ==
  [app_name |-> "Budget", bundle_id |-> "com.budget.app",
   app_version |-> "0.1.0", build_number |-> "1"]
Metas ==
  {DefaultMeta,
   [app_name |-> "Widget", bundle_id |-> "com.x.widget",
    app_version |-> "2.3.0", build_number |-> "7"],
   [app_name |-> "R&D <beta>", bundle_id |-> "7",
    app_version |-> "7", build_number |-> "2.3.0"]}

\* CODESIGN_IDENTITY (main.rs 190), a string as the sequence of its
\* characters: not set or empty, white space only, a name, a name in spaces.
NoIdentity == <<>>
BlankIdentity == <<" ">>
DevIdentity == <<"D", "e", "v", " ", "I", "D">>
PaddedIdentity == <<" ", "I", "D", " ">>
FormFeedIdentity == <<"\f">>
LineEndIdentity == <<" ", "\r", "\n">>
NoBreakIdentity == <<"U+00A0">>
Identities ==
  {NoIdentity, BlankIdentity, DevIdentity, PaddedIdentity, FormFeedIdentity,
   LineEndIdentity, NoBreakIdentity}

\* char::is_whitespace: the characters with the Unicode property White_Space;
\* the ones TLA+ cannot write in a string are named by their code point.
WhiteSpace ==
  {" ", "\t", "\n", "\r", "\f", "U+000B", "U+0085", "U+00A0", "U+1680",
   "U+2000", "U+2001", "U+2002", "U+2003", "U+2004", "U+2005", "U+2006",
   "U+2007", "U+2008", "U+2009", "U+200A", "U+2028", "U+2029", "U+202F",
   "U+205F", "U+3000"}
\* str::trim: the string without its leading and trailing white space
RECURSIVE trim_start(_)
trim_start(str) ==
  IF str /= <<>> /\ Head(str) \in WhiteSpace THEN trim_start(Tail(str))
  ELSE str
RECURSIVE trim_end(_)
trim_end(str) ==
  IF str /= <<>> /\ str[Len(str)] \in WhiteSpace
  THEN trim_end(SubSeq(str, 1, Len(str) - 1))
  ELSE str
trim(str) == trim_end(trim_start(str))

\* Config::from_env (main.rs 170-192); verbose only adds log lines and is
\* left out.
Configs ==
  {fl @@ DefaultMeta @@ [codesign_identity |-> i] :
     fl \in [Flags -> BOOLEAN], i \in {NoIdentity, DevIdentity}}
DefaultConfig ==
  [f \in Flags |-> FALSE] @@ DefaultMeta @@ [codesign_identity |-> NoIdentity]
WithIdentity(c, i) == [c EXCEPT !.codesign_identity = i]
With(c, fs) == [f \in DOMAIN c |-> IF f \in fs THEN TRUE ELSE c[f]]
Without(c, fs) == [f \in DOMAIN c |-> IF f \in fs THEN FALSE ELSE c[f]]
WithMeta(c, m) == [f \in DOMAIN c |-> IF f \in DOMAIN m THEN m[f] ELSE c[f]]

\* A faulty rewrite that keeps the signing identity.
ApplyDevMode_keep_identity(c) ==
  IF c.dev_mode
  THEN With(c, {"skip_backend", "skip_swift"})
  ELSE c

\* run() (main.rs 31-36)
ApplyDevMode(c) ==
  IF c.dev_mode
  THEN WithIdentity(With(c, {"skip_backend", "skip_swift"}), NoIdentity)
  ELSE c

\* A faulty list that leaves the command of the last step to that step.
RequiredCmds_no_rsync == {"npm", "node", "uv", "swift", "xcrun"}

\* The commands of the require_cmd calls (main.rs 328-333)
RequiredCmds == {"npm", "node", "uv", "swift", "xcrun", "rsync"}

(* ----------------------------- Info.plist ----------------------------- *)
\* The <key>/<string> pairs of the file, as a function from key to the text
\* between <string> and </string>; the values are interpolated as they are.
IconKey == "CFBundleIconFile"
PlistKeys(has_icon) ==
  {"CFBundleName", "CFBundleDisplayName", "CFBundleIdentifier",
   "CFBundleExecutable", "CFBundlePackageType",
   "CFBundleShortVersionString", "CFBundleVersion", "NSPrincipalClass"}
    \cup (IF has_icon THEN {IconKey} ELSE {})
NoPlist == [k \in {} |-> ""]

\* A faulty writer that puts the two version fields under each other's key.
write_info_plist_swapped(c, has_icon) ==
  [k \in PlistKeys(has_icon) |->
     CASE k \in {"CFBundleName", "CFBundleDisplayName", "CFBundleExecutable"}
            -> c.app_name
       [] k = "CFBundleIdentifier" -> c.bundle_id
       [] k = "CFBundlePackageType" -> "APPL"
       [] k = "CFBundleShortVersionString" -> c.build_number
       [] k = "CFBundleVersion" -> c.app_version
       [] k = IconKey -> "appicon"
       [] k = "NSPrincipalClass" -> "NSApplication"]

\* write_info_plist (main.rs 1302-1352)
write_info_plist(c, has_icon) ==
  [k \in PlistKeys(has_icon) |->
     CASE k \in {"CFBundleName", "CFBundleDisplayName", "CFBundleExecutable"}
            -> c.app_name
       [] k = "CFBundleIdentifier" -> c.bundle_id
       [] k = "CFBundlePackageType" -> "APPL"
       [] k = "CFBundleShortVersionString" -> c.app_version
       [] k = "CFBundleVersion" -> c.build_number
       [] k = IconKey -> "appicon"
       [] k = "NSPrincipalClass" -> "NSApplication"]

(* -------------------------- initial filesystems ----------------------- *)
\* Time of the inputs, of the stamps and of the start of the first run.
T_input == Absent + 1
T_stamp == T_input + 1
T_start == T_stamp + 1

OptionalAbsent ==
  {F_vite_js, F_vite_mts, F_vite_mjs} \cup (IconCandidates \ {F_icon})

\* Everything built once: stamps newer than every input.
WarmMt ==
  [f \in Files |->
     IF f \in Stamps THEN T_stamp
     ELSE IF f \in OptionalAbsent THEN Absent ELSE T_input]
WarmDirs == Dirs
FullBundle ==
  [exe |-> TRUE, backend |-> "mirror", webapp |-> "mirror", stray |-> {},
   icns |-> "full", plist |-> write_info_plist(DefaultConfig, TRUE),
   pkginfo |-> TRUE, signed |-> FALSE]

\* A fresh checkout: sources only.
ColdMt ==
  [f \in Files |->
     IF f \in Stamps \cup OptionalAbsent THEN Absent
     ELSE T_input]
ColdDirs == SourceDirs
EmptyBundle ==
  [exe |-> FALSE, backend |-> "none", webapp |-> "none", stray |-> {},
   icns |-> "none", plist |-> NoPlist, pkginfo |-> FALSE, signed |-> FALSE]

\* Directories and files below a directory.
RECURSIVE Below(_)
Below(d) ==
  {d} \cup UNION {Below(s) : s \in {x \in Dirs : ParentDir(x) = d}}
FilesBelow(d) == {f \in Files : DirOf(f) \in Below(d)}

NoEval == [s \in Stages |-> "unevaluated"]
NoChild == [k \in Kinds |-> "none"]
NoPrev == [cfg |-> DefaultConfig, result |-> "none", failed |-> "none",
           plan |-> <<>>, ran |-> FALSE]

(* ----------------------------- helpers -------------------------------- *)
\* The clock may have advanced while the orchestrator was blocked.
Later == {t \in {now, now + 1} : t <= MaxTime}

\* A faulty error path that records the error and carries on.
Fail_continue(kind, what) ==
  /\ result' = kind
  /\ failed' = what
  /\ pc' = pc

\* A faulty error path that takes a failed dependency command for a warning
\* and goes on to the build.
Fail_deps_tolerated(kind, what) ==
  IF pc \in {"npm_wait", "uv_wait"}
  THEN /\ pc' = (IF pc = "npm_wait" THEN "fe_build" ELSE "be_build")
       /\ UNCHANGED <<result, failed>>
  ELSE /\ result' = kind
       /\ failed' = what
       /\ pc' = "done"

\* A faulty error path that keeps the error for after the wait loop.
Fail_after_wait(kind, what) ==
  /\ result' = kind
  /\ failed' = what
  /\ pc' = "wait"

\* `return Err(..)` and `?`: build() returns the error to run() and main()
Fail(kind, what) ==
  /\ result' = kind
  /\ failed' = what
  /\ pc' = "done"

\* write_stamp (main.rs 1012-1025), not dry: the parent directories, then
\* the file.
StampDirs == {D_work, D_stamps}

\* The stamp_file of a task's TaskKind (main.rs 691-704); TaskKind::SwiftBuild
\* (705-707) has none.
StampOf(k) ==
  CASE k = "fe" -> S_fbuild
    [] k = "be" -> S_bbuild

(* ------------------------------ run() --------------------------------- *)
\* run() (main.rs 20-45): the dev_mode rewrite, then build().
RunStart ==
  /\ pc = "run"
  /\ cfg' = ApplyDevMode(cfg)
  /\ pc' = "toolchain"
  /\ UNCHANGED <<missing, now, fsVars, tasks, waited, child, exits, log,
                 result, failed, written, eval, run, prev, orphans, touched, budget>>

\* build(): require_cmd for the six commands (main.rs 327-333, 837-851)
CheckToolchain ==
  /\ pc = "toolchain"
  /\ IF missing \cap RequiredCmds /= {}
     THEN Fail("ToolchainMissing",
               CHOOSE c \in missing \cap RequiredCmds : TRUE)
     ELSE pc' = "clean" /\ UNCHANGED <<result, failed>>
  /\ UNCHANGED <<cfg, missing, now, fsVars, tasks, waited, child, exits, log,
                 written, eval, run, prev, orphans, touched, budget>>

\* main() (main.rs 13-18): an Err from run() is printed as one `ERROR: ..`
\* line on stderr and the process exits with status 1; Ok falls off the end
\* of main, status 0.
Failures == {"ToolchainMissing", "CommandFailed", "TaskFailed",
             "MissingArtifact", "FilesystemError"}
exit_status == IF result \in Failures THEN 1 ELSE 0
main_error_lines == IF result \in Failures THEN 1 ELSE 0

\* require_cmd (main.rs 838-843) prints its own `ERROR: Missing required
\* command: ..` line before it returns the Err that main() prints again.
require_cmd_error_lines == IF result = "ToolchainMissing" THEN 1 ELSE 0

\* The `ERROR:` lines the process has written to stderr.
ErrorLines == require_cmd_error_lines + main_error_lines

\* A faulty clean that removes the directories in a dry run only.
should_wipe_only_dry == cfg.clean /\ cfg.dry_run

\* A faulty clean that removes the directories in a dry run too.
should_wipe_dry == cfg.clean

\* main.rs 350, 356-361: a dry run only prints the removal
should_wipe == cfg.clean /\ ~cfg.dry_run

\* build(): CLEAN, then the work directories (main.rs 350-369)
CleanAndPrepare ==
  /\ pc = "clean"
  /\ LET wipe == should_wipe
         kept == IF wipe THEN dirs \ (WorkDirs \cup {D_bundle}) ELSE dirs
     IN  /\ log' = IF cfg.clean THEN Append(log, <<"clean", "rm_rf">>) ELSE log
         /\ mt' = IF wipe
                  THEN [f \in Files |-> IF f \in Stamps THEN Absent ELSE mt[f]]
                  ELSE mt
         /\ envc' = IF wipe THEN "none" ELSE envc
         /\ bundle' = IF wipe THEN EmptyBundle ELSE bundle
         /\ iconset' = IF wipe THEN 0 ELSE iconset
         /\ dirs' = IF cfg.dry_run THEN dirs
                    ELSE kept \cup {D_out, D_work, D_stamps, D_backend_out}
  /\ pc' = "fe_deps"
  /\ UNCHANGED <<cfg, missing, now, wrapper, tasks, waited, child, exits,
                 result, failed, written, eval, run, prev, orphans, touched, budget>>

\* A faulty runner that starts the program again when it is asked once.
launch_cmd_twice(l, c) == l \o <<(<<"cmd", c>>), (<<"cmd", c>>)>>

\* run_cmd (main.rs 877-941) and spawn_cmd_with_env (954-1010): one
\* invocation of the program, or one [DRY RUN] line in a dry run
launch_cmd(l, c) == Append(l, <<"cmd", c>>)

\* A faulty registration that puts the new task before the others.
tasks_push_front(ts, k) == <<k>> \o ts

\* tasks.push(Task {..}) (main.rs 473, 612, 659)
tasks_push(ts, k) == Append(ts, k)

(* --------------------------- frontend stage --------------------------- *)
\* main.rs 404: the forced flag overrides the verdict
should_npm_install == need_npm_install \/ cfg.force_frontend
NpmCmd == IF lock_file_present THEN "npm_ci" ELSE "npm_install"

\* build(): 1) frontend deps (main.rs 380-431), up to the blocking cmd.status()
FrontendDeps ==
  /\ pc = "fe_deps"
  /\ IF cfg.skip_frontend
     THEN pc' = "fe_build" /\ UNCHANGED <<log, eval>>
     ELSE /\ eval' = [eval EXCEPT !["fdeps"] = Verdict("fdeps")]
          /\ IF should_npm_install
             THEN /\ log' = launch_cmd(log, NpmCmd)
                  /\ pc' = IF cfg.dry_run THEN "fe_build" ELSE "npm_wait"
             ELSE pc' = "fe_build" /\ UNCHANGED log
  /\ UNCHANGED <<cfg, missing, now, fsVars, tasks, waited, child, exits,
                 result, failed, written, run, prev, orphans, touched, budget>>

\* run_cmd returns (main.rs 936-940), then write_stamp (main.rs 425)
NpmExit ==
  /\ pc = "npm_wait"
  /\ \E ok \in BOOLEAN, partial \in BOOLEAN, t \in Later :
       /\ Outcome(ok)
       /\ now' = t
       /\ IF ok
          THEN /\ dirs' = dirs \cup {D_node_modules} \cup StampDirs
               /\ mt' = [mt EXCEPT ![S_fdeps] = t]
               /\ written' = written \cup {S_fdeps}
               /\ log' = Append(log, <<"stamp", S_fdeps>>)
               /\ pc' = "fe_build"
               /\ UNCHANGED <<result, failed>>
          ELSE /\ dirs' = IF partial THEN dirs \cup {D_node_modules} ELSE dirs
               /\ Fail("CommandFailed", "npm")
               /\ UNCHANGED <<mt, written, log>>
  /\ UNCHANGED <<cfg, missing, envc, wrapper, iconset, bundle, tasks, waited, child,
                 exits, eval, run, prev, orphans, touched, runsLeft, touchesLeft>>

\* A faulty decision that forgets the forced flag.
should_build_frontend_unforced == compute_need_webapp_build

\* main.rs 453
should_build_frontend == compute_need_webapp_build \/ cfg.force_frontend

\* A faulty guard that lets the forced flag override the skip flag.
frontend_build_skipped_unless_forced == cfg.skip_frontend /\ ~cfg.force_frontend

\* main.rs 442: `if !cfg.skip_frontend`
frontend_build_skipped == cfg.skip_frontend

\* build(): 1b) frontend build (main.rs 442-486)
FrontendBuild ==
  /\ pc = "fe_build"
  /\ IF frontend_build_skipped
     THEN UNCHANGED <<log, eval, child, tasks>>
     ELSE /\ eval' = [eval EXCEPT !["fbuild"] = Verdict("fbuild")]
          /\ IF should_build_frontend
             THEN /\ log' = launch_cmd(log, "npm_run_build")
                  /\ IF cfg.dry_run
                     THEN UNCHANGED <<child, tasks>>
                     ELSE /\ child' = [child EXCEPT !["fe"] = "running"]
                          /\ tasks' = tasks_push(tasks, "fe")
             ELSE UNCHANGED <<log, child, tasks>>
  /\ pc' = "be_deps"
  /\ UNCHANGED <<cfg, missing, now, fsVars, waited, exits, result, failed,
                 written, run, prev, orphans, touched, budget>>

(* ---------------------------- backend stage --------------------------- *)
\* main.rs 516
should_uv_sync == need_uv_sync \/ cfg.force_backend
UvCmd == IF IsFile(F_uvlock) THEN "uv_sync_frozen" ELSE "uv_sync"

\* build(): 2) backend deps (main.rs 494-529), up to the blocking cmd.status()
BackendDeps ==
  /\ pc = "be_deps"
  /\ IF cfg.skip_backend
     THEN pc' = "be_build" /\ UNCHANGED <<log, eval>>
     ELSE /\ eval' = [eval EXCEPT !["bdeps"] = Verdict("bdeps")]
          /\ IF should_uv_sync
             THEN /\ log' = launch_cmd(log, UvCmd)
                  /\ pc' = IF cfg.dry_run THEN "be_build" ELSE "uv_wait"
             ELSE pc' = "be_build" /\ UNCHANGED log
  /\ UNCHANGED <<cfg, missing, now, fsVars, tasks, waited, child, exits,
                 result, failed, written, run, prev, orphans, touched, budget>>

\* run_cmd returns (main.rs 936-940), then write_stamp (main.rs 523)
UvExit ==
  /\ pc = "uv_wait"
  /\ \E ok \in BOOLEAN, partial \in BOOLEAN, t \in Later :
       /\ Outcome(ok)
       /\ now' = t
       /\ IF ok
          THEN /\ dirs' = dirs \cup {D_venv} \cup StampDirs
               /\ mt' = [mt EXCEPT ![S_bdeps] = t]
               /\ written' = written \cup {S_bdeps}
               /\ log' = Append(log, <<"stamp", S_bdeps>>)
               /\ pc' = "be_build"
               /\ UNCHANGED <<result, failed>>
          ELSE /\ dirs' = IF partial THEN dirs \cup {D_venv} ELSE dirs
               /\ Fail("CommandFailed", "uv")
               /\ UNCHANGED <<mt, written, log>>
  /\ UNCHANGED <<cfg, missing, envc, wrapper, iconset, bundle, tasks, waited, child,
                 exits, eval, run, prev, orphans, touched, runsLeft, touchesLeft>>

\* main.rs 552
should_build_backend == compute_need_backend_pyinstaller \/ cfg.force_backend

\* build(): 2b) backend build (main.rs 542-623)
BackendBuild ==
  /\ pc = "be_build"
  /\ IF cfg.skip_backend
     THEN UNCHANGED <<log, eval, child, tasks>>
     ELSE /\ eval' = [eval EXCEPT !["bbuild"] = Verdict("bbuild")]
          /\ IF should_build_backend
             THEN /\ log' = launch_cmd(log, "pyinstaller")
                  /\ IF cfg.dry_run
                     THEN UNCHANGED <<child, tasks>>
                     ELSE /\ child' = [child EXCEPT !["be"] = "running"]
                          /\ tasks' = tasks_push(tasks, "be")
             ELSE UNCHANGED <<log, child, tasks>>
  /\ pc' = "swift"
  /\ UNCHANGED <<cfg, missing, now, fsVars, waited, exits, result, failed,
                 written, run, prev, orphans, touched, budget>>

(* ---------------------------- wrapper stage --------------------------- *)
\* A faulty wrapper stage that builds from scratch when it is forced.
swift_build_cmd_forced ==
  IF cfg.force_swift THEN "swift_build_clean" ELSE "swift_build"

\* `swift build -c release --disable-sandbox` with HOME set (main.rs 642-658):
\* the same arguments whether or not FORCE_SWIFT is set (635-638)
swift_build_cmd == "swift_build"

\* build(): 3) Swift wrapper build (main.rs 628-667): no staleness check
SwiftBuild ==
  /\ pc = "swift"
  /\ IF cfg.skip_swift
     THEN UNCHANGED <<log, child, tasks, dirs>>
     ELSE /\ log' = launch_cmd(log, swift_build_cmd)
          /\ IF cfg.dry_run
             THEN UNCHANGED <<child, tasks, dirs>>
             ELSE /\ dirs' = dirs \cup {D_work, D_swift_home}
                  /\ child' = [child EXCEPT !["sw"] = "running"]
                  /\ tasks' = tasks_push(tasks, "sw")
  /\ pc' = "wait"
  /\ UNCHANGED <<cfg, missing, now, mt, envc, wrapper, iconset, bundle, waited, exits,
                 result, failed, written, eval, run, prev, orphans, touched, budget>>

\* build(): DRY_RUN returns before the wait loop (main.rs 672-675)
PlanComplete ==
  /\ pc = "wait"
  /\ cfg.dry_run
  /\ result' = "ok"
  /\ pc' = "done"
  /\ UNCHANGED <<cfg, missing, now, fsVars, tasks, waited, child, exits, log,
                 failed, written, eval, run, prev, orphans, touched, budget>>

(* ------------------------- spawned processes -------------------------- *)
\* The orchestrator's own steps take no time next to an external process:
\* processes exit, and inputs are edited, while the orchestrator is blocked in
\* a wait (cmd.status(), child.wait()), stands at the head of the wait loop
\* with the builds it spawned, or has returned.
BlockedPcs == {"npm_wait", "uv_wait", "task_wait", "rsync_be_wait",
               "rsync_fe_wait", "sips_wait", "iconutil_wait", "sips_icns_wait",
               "touch_wait", "codesign_wait"}
TimePasses == pc \in BlockedPcs \cup {"wait", "done"}

\* What a build process has put on the disk when it exits: `npm run build`
\* webapp/dist (main.rs 455-465), pyinstaller the backend distribution
\* (583-611), `swift build` the wrapper executable (642-658); the bundle's
\* copy of a rewritten directory is no longer its mirror.
ProcessOutput(k, out) ==
  /\ dirs' = IF ~out THEN dirs
             ELSE IF k = "fe" THEN dirs \cup {D_dist}
             ELSE IF k = "be"
               THEN dirs \cup {D_work, D_backend_out, D_product}
             ELSE dirs
  /\ wrapper' = IF out /\ k = "sw" THEN TRUE ELSE wrapper
  /\ bundle' = IF out /\ k = "be" /\ bundle.backend = "mirror"
                 THEN [bundle EXCEPT !.backend = "stale"]
               ELSE IF out /\ k = "fe" /\ bundle.webapp = "mirror"
                 THEN [bundle EXCEPT !.webapp = "stale"]
               ELSE bundle

\* A spawned build process exits with some status: a success has written the
\* output its tool documents, a failure may leave a partial one.  Nothing in
\* the orchestrator signals or kills a child.
ChildExit(k) ==
  /\ child[k] = "running"
  /\ TimePasses
  /\ \E ok \in BOOLEAN, out \in BOOLEAN, t \in Later :
       /\ ok => out
       /\ Outcome(ok)
       /\ now' = t
       /\ child' = [child EXCEPT ![k] = IF ok THEN "ok" ELSE "fail"]
       /\ exits' = Append(exits, k)
       /\ ProcessOutput(k, out)
  /\ UNCHANGED <<cfg, missing, mt, envc, iconset, pc, tasks, waited, log, result,
                 failed, written, eval, run, prev, orphans, touched, runsLeft,
                 touchesLeft>>

\* A process that an earlier run left running exits; no run looks at its
\* status.
OrphanExit(o) ==
  /\ o \in orphans
  /\ TimePasses
  /\ orphans' = orphans \ {o}
  /\ \E out \in BOOLEAN, t \in Later :
       /\ now' = t
       /\ ProcessOutput(o[2], out)
  /\ UNCHANGED <<cfg, missing, mt, envc, iconset, pc, tasks, waited, child,
                 exits, log, result, failed, written, eval, run, prev,
                 touched, budget>>

(* ----------------------------- wait loop ------------------------------ *)
Unwaited ==
  {i \in 1..Len(tasks) : \A j \in 1..Len(waited) : waited[j] /= tasks[i]}

\* A faulty loop that takes whichever unwaited task has exited.
next_task_completion == {i \in Unwaited : child[tasks[i]] /= "running"}

\* A faulty loop that takes the task registered last.
next_task_last == {i \in Unwaited : \A j \in Unwaited : j <= i}

\* `for mut task in tasks` (main.rs 680): the first task not yet waited on
next_task == {i \in Unwaited : \A j \in Unwaited : i <= j}

\* A faulty check that takes every exit for a success.
status_success_any(k) == child[k] \in {"ok", "fail"}

\* status.success() (main.rs 687)
status_success(k) == child[k] = "ok"

\* A faulty wait that returns while the process is still running.
child_wait_returns_early(k) == child[k] /= "none"

\* task.child.wait() (main.rs 686) returns once the process has exited
child_wait_returns(k) == child[k] \in {"ok", "fail"}

\* build(): an iteration of the wait loop begins (main.rs 680-686): the
\* `==> Waiting for ..` line, then the orchestrator blocks in child.wait()
WaitBegin ==
  /\ pc = "wait"
  /\ ~cfg.dry_run
  /\ \E i \in next_task : log' = Append(log, <<"wait", tasks[i]>>)
  /\ pc' = "task_wait"
  /\ UNCHANGED <<cfg, missing, now, fsVars, tasks, waited, child, exits,
                 result, failed, written, eval, run, prev, orphans, touched,
                 budget>>

\* build(): the rest of the iteration (main.rs 686-708): child.wait() returns
\* once the process has exited; then the failure or the finalization.
WaitTask ==
  /\ pc = "task_wait"
  /\ \E i \in next_task :
       LET k == tasks[i] IN
       /\ child_wait_returns(k)
       /\ waited' = Append(waited, k)
       /\ IF ~status_success(k)
          THEN /\ Fail("TaskFailed", k)
               /\ UNCHANGED <<log, mt, dirs, envc, written>>
          ELSE /\ pc' = "wait"
               /\ UNCHANGED <<result, failed>>
               /\ log' = Append(log, <<"finalize", k>>)
               /\ IF k = "sw"
                  THEN UNCHANGED <<mt, dirs, envc, written>>
                  ELSE /\ envc' = IF k = "fe" THEN "cur" ELSE envc
                       /\ mt' = [mt EXCEPT ![StampOf(k)] = now]
                       /\ dirs' = dirs \cup StampDirs
                       /\ written' =
                            written \cup {StampOf(k)}
                              \cup (IF k = "fe" THEN {F_env} ELSE {})
  /\ UNCHANGED <<cfg, missing, now, wrapper, iconset, bundle, tasks, child, exits, eval,
                 run, prev, orphans, touched, budget>>

(* ------------------------------ assembly ------------------------------ *)
\* A faulty loop that is left after its first iteration.
wait_loop_done_after_first == waited /= <<>> \/ tasks = <<>>

\* `for mut task in tasks` (main.rs 680-709) has gone through every task
wait_loop_done == Unwaited = {}

\* build(): the wrapper binary check after the loop (main.rs 711-717)
CheckWrapperBin ==
  /\ pc = "wait"
  /\ ~cfg.dry_run
  /\ wait_loop_done
  /\ IF ~wrapper
     THEN Fail("MissingArtifact", "wrapper")
     ELSE pc' = "assemble" /\ UNCHANGED <<result, failed>>
  /\ UNCHANGED <<cfg, missing, now, fsVars, tasks, waited, child, exits, log,
                 written, eval, run, prev, orphans, touched, budget>>

\* build(): bundle directories and the wrapper executable (main.rs 727-732)
AssembleCopyWrapper ==
  /\ pc = "assemble"
  /\ dirs' = dirs \cup {D_out, D_bundle}
  /\ bundle' = [bundle EXCEPT !.exe = TRUE]
  /\ log' = Append(log, <<"asm", "copy_wrapper">>)
  /\ pc' = "mirror_be"
  /\ UNCHANGED <<cfg, missing, now, mt, envc, wrapper, iconset, tasks, waited, child,
                 exits, result, failed, written, eval, run, prev, orphans, touched,
                 budget>>

\* A faulty assembly that takes the backend distribution for granted.
backend_product_assumed == IsDir(D_backend_out)

\* backend_product.is_dir() (main.rs 735-741)
backend_product_found == IsDir(D_product)

\* build(): backend distribution check, target directory, rsync launched
\* (main.rs 735-756)
MirrorBackend ==
  /\ pc = "mirror_be"
  /\ IF ~backend_product_found
     THEN /\ Fail("MissingArtifact", "backend")
          /\ UNCHANGED <<bundle, log>>
     ELSE /\ bundle' = IF bundle.backend = "none"
                       THEN [bundle EXCEPT !.backend = "stale"] ELSE bundle
          /\ log' = Append(log, <<"asm", "rsync_backend">>)
          /\ pc' = "rsync_be_wait"
          /\ UNCHANGED <<result, failed>>
  /\ UNCHANGED <<cfg, missing, now, mt, dirs, envc, wrapper, iconset, tasks, waited,
                 child, exits, written, eval, run, prev, orphans, touched, budget>>

\* A faulty mirror that copies without --delete.
rsync_backend_keep(b) == [b EXCEPT !.backend = "mirror"]

\* rsync -a --delete source/ target/ (main.rs 744-756): the target equals
\* the source, so the files only the target had, and with them the frontend
\* assets of an earlier run, which the source does not hold, are gone.
rsync_backend(b) ==
  [b EXCEPT !.backend = "mirror", !.webapp = "none", !.stray = {}]

\* rsync -a --delete dist/ target/webapp_dist/ (main.rs 765-777)
rsync_frontend(b) ==
  [b EXCEPT !.webapp = "mirror", !.stray = @ \ {"webapp"}]

\* run_cmd of the backend rsync returns (main.rs 744-756, 936-940).
RsyncBackendExit ==
  /\ pc = "rsync_be_wait"
  /\ \E ok \in BOOLEAN :
       /\ Outcome(ok)
       /\ IF ok
          THEN /\ bundle' = rsync_backend(bundle)
               /\ log' = IF bundle.stray = {} THEN log
                          ELSE Append(log, <<"deleted", "stray">>)
               /\ pc' = "mirror_fe"
               /\ UNCHANGED <<result, failed>>
          ELSE /\ Fail("CommandFailed", "rsync")
               /\ UNCHANGED <<bundle, log>>
  /\ UNCHANGED <<cfg, missing, now, mt, dirs, envc, wrapper, iconset,
                 tasks, waited, child, exits, written, eval, run, prev, orphans,
                 touched, runsLeft, touchesLeft>>

\* A faulty assembly that takes the frontend assets for granted.
webapp_dist_assumed == TRUE

\* webapp_dist.is_dir() (main.rs 759-762)
webapp_dist_found == IsDir(D_dist)

\* build(): frontend dist check, target directory, rsync launched
\* (main.rs 759-777)
MirrorFrontend ==
  /\ pc = "mirror_fe"
  /\ IF ~webapp_dist_found
     THEN /\ Fail("MissingArtifact", "frontend")
          /\ UNCHANGED <<bundle, log>>
     ELSE /\ bundle' = IF bundle.webapp = "none"
                       THEN [bundle EXCEPT !.webapp = "stale"] ELSE bundle
          /\ log' = Append(log, <<"asm", "rsync_frontend">>)
          /\ pc' = "rsync_fe_wait"
          /\ UNCHANGED <<result, failed>>
  /\ UNCHANGED <<cfg, missing, now, mt, dirs, envc, wrapper, iconset, tasks, waited,
                 child, exits, written, eval, run, prev, orphans, touched, budget>>

RsyncFrontendExit ==
  /\ pc = "rsync_fe_wait"
  /\ \E ok \in BOOLEAN :
       /\ Outcome(ok)
       /\ IF ok
          THEN /\ bundle' = rsync_frontend(bundle)
               /\ pc' = "icon"
               /\ UNCHANGED <<result, failed>>
          ELSE /\ Fail("CommandFailed", "rsync")
               /\ UNCHANGED bundle
  /\ UNCHANGED <<cfg, missing, now, mt, dirs, envc, wrapper, iconset, tasks, waited,
                 child, exits, log, written, eval, run, prev, orphans, touched,
                 runsLeft, touchesLeft>>

\* build_app_icon finds the source directory and one of the candidate files
\* in it (main.rs 1191-1213)
icon_source_found ==
  IsDir(D_favicon) /\ \E f \in IconCandidates : IsFile(f)

\* What build_app_icon (main.rs 1183-1300) reports:
\*   no_source      icon directory or icon file missing: Ok(false) (1191-1213)
\*   flatten_error  flatten_icon_to_opaque_png or the creation of the iconset
\*                  directory fails: Err through `?` (1219, 1224)
\*   sips_error     a sips resize exits non-zero: Err (1242-1256)
\*   no_icns        neither iconutil nor sips wrote the .icns: Ok(false)
\*   icns           the .icns was written: Ok(true)
\* A faulty order that writes the type marker before the metadata file.
metadata_steps_marker_first(o) ==
  <<(<<"icon", o>>), (<<"asm", "pkginfo">>), (<<"asm", "plist">>)>>

\* build_app_icon, write_info_plist, write_pkg_info (main.rs 782-784)
metadata_steps(o) ==
  <<(<<"icon", o>>), (<<"asm", "plist">>), (<<"asm", "pkginfo">>)>>

\* `icon_out.is_file() && len > 0` (main.rs 1272, 1288)
icon_out_ready(b) == b.icns = "full"

\* write_info_plist and write_pkg_info (main.rs 783-784)
write_metadata(b, has_icon) ==
  [b EXCEPT !.plist = write_info_plist(cfg, has_icon), !.pkginfo = TRUE]

\* build_app_icon has returned Ok(has_icon): Info.plist, PkgInfo, and `touch`
\* of the bundle started (main.rs 782-787)
FinishIcon(b, o) ==
  /\ bundle' = write_metadata(b, o = "icns")
  /\ log' = (log \o metadata_steps(o)) \o <<(<<"tool", "touch">>)>>
  /\ pc' = "touch_wait"

\* build(): build_app_icon up to the first `sips -z` (main.rs 782,
\* 1183-1256); without an icon source, the metadata at once.
IconStart ==
  /\ pc = "icon"
  /\ IF ~icon_source_found
     THEN /\ FinishIcon(bundle, "no_source")
          /\ UNCHANGED <<iconset, result, failed, faultsLeft>>
     ELSE \E ok \in BOOLEAN :
            /\ Outcome(ok)
            /\ IF ok
               THEN /\ iconset' = 0
                    /\ log' = Append(log, <<"tool", "sips">>)
                    /\ pc' = "sips_wait"
                    /\ UNCHANGED <<bundle, result, failed>>
               ELSE /\ Fail("FilesystemError", "icon")
                    /\ log' = Append(log, <<"icon", "flatten_error">>)
                    /\ UNCHANGED <<bundle, iconset>>
  /\ UNCHANGED <<cfg, missing, now, mt, dirs, envc, wrapper, tasks, waited,
                 child, exits, written, eval, run, prev, orphans, touched, runsLeft,
                 touchesLeft>>

\* run_cmd of one `sips -z` returns (main.rs 1240-1257); after the last
\* size the old .icns is removed and iconutil, when it is on PATH, is started
\* (1260-1269), else the sips conversion (1276-1287)
SipsExit ==
  /\ pc = "sips_wait"
  /\ \E ok \in BOOLEAN :
       /\ Outcome(ok)
       /\ IF ~ok
          THEN /\ Fail("CommandFailed", "sips")
               /\ log' = Append(log, <<"icon", "sips_error">>)
               /\ UNCHANGED <<iconset, bundle>>
          ELSE /\ iconset' = iconset + 1
               /\ UNCHANGED <<result, failed>>
               /\ IF iconset + 1 < IconSizes
                  THEN /\ log' = Append(log, <<"tool", "sips">>)
                       /\ UNCHANGED <<pc, bundle>>
                  ELSE /\ bundle' = [bundle EXCEPT !.icns = "none"]
                       /\ IF "iconutil" \notin missing
                          THEN /\ log' = Append(log, <<"tool", "iconutil">>)
                               /\ pc' = "iconutil_wait"
                          ELSE /\ log' = Append(log, <<"tool", "sips_icns">>)
                               /\ pc' = "sips_icns_wait"
  /\ UNCHANGED <<cfg, missing, now, mt, dirs, envc, wrapper, tasks, waited,
                 child, exits, written, eval, run, prev, orphans, touched, runsLeft,
                 touchesLeft>>

\* What a conversion can leave at the place of the .icns: nothing, a file of
\* length 0, the icon.
IcnsStates == {"none", "empty", "full"}

\* iconutil has exited, its status is not looked at (main.rs 1265-1269);
\* then the test of the .icns (1272) and, when it fails, the sips
\* conversion is started (1276).
IconutilExit ==
  /\ pc = "iconutil_wait"
  /\ \E w \in IcnsStates :
       LET b == [bundle EXCEPT !.icns = w] IN
       IF icon_out_ready(b)
       THEN FinishIcon(b, "icns")
       ELSE /\ bundle' = b
            /\ log' = Append(log, <<"tool", "sips_icns">>)
            /\ pc' = "sips_icns_wait"
  /\ UNCHANGED <<cfg, missing, now, mt, dirs, envc, wrapper, iconset, tasks,
                 waited, child, exits, result, failed, written, eval, run,
                 prev, orphans, touched, budget>>

\* `sips -s format icns` has exited, its status is not looked at
\* (main.rs 1276-1287); it may have left the file as it was.
SipsIcnsExit ==
  /\ pc = "sips_icns_wait"
  /\ \E w \in {bundle.icns, "empty", "full"} :
       LET b == [bundle EXCEPT !.icns = w] IN
       FinishIcon(b, IF icon_out_ready(b) THEN "icns" ELSE "no_icns")
  /\ UNCHANGED <<cfg, missing, now, mt, dirs, envc, wrapper, iconset, tasks,
                 waited, child, exits, result, failed, written, eval, run,
                 prev, orphans, touched, budget>>

\* `touch <bundle>` has exited, its status is not looked at (main.rs 787)
TouchExit ==
  /\ pc = "touch_wait"
  /\ pc' = "codesign"
  /\ UNCHANGED <<cfg, missing, now, fsVars, tasks, waited, child, exits, log,
                 result, failed, written, eval, run, prev, orphans, touched, budget>>

\* A faulty test that takes white space for an identity.
codesign_requested_untrimmed == cfg.codesign_identity /= <<>>

\* `!cfg.codesign_identity.trim().is_empty()` (main.rs 792)
codesign_requested == trim(cfg.codesign_identity) /= <<>>

\* build(): 5) optional codesign (main.rs 792-816), then Ok (834)
Codesign ==
  /\ pc = "codesign"
  /\ IF codesign_requested
     THEN /\ log' = launch_cmd(log, "codesign")
          /\ pc' = "codesign_wait"
          /\ UNCHANGED result
     ELSE /\ result' = "ok"
          /\ pc' = "done"
          /\ UNCHANGED log
  /\ UNCHANGED <<cfg, missing, now, fsVars, tasks, waited, child, exits,
                 failed, written, eval, run, prev, orphans, touched, budget>>

CodesignExit ==
  /\ pc = "codesign_wait"
  /\ \E ok \in BOOLEAN :
       /\ Outcome(ok)
       /\ IF ok
          THEN /\ bundle' = [bundle EXCEPT !.signed = TRUE]
               /\ result' = "ok"
               /\ pc' = "done"
               /\ UNCHANGED failed
          ELSE /\ Fail("CommandFailed", "codesign")
               /\ UNCHANGED bundle
  /\ UNCHANGED <<cfg, missing, now, mt, dirs, envc, wrapper, iconset, tasks, waited,
                 child, exits, log, written, eval, run, prev, orphans, touched,
                 runsLeft, touchesLeft>>

(* ---------------------------- environment ----------------------------- *)
\* The inputs somebody edits while or between runs.
TouchPaths == {F_src2, F_app1}

Touch(p) ==
  /\ TimePasses
  /\ touchesLeft > 0
  /\ touchesLeft' = touchesLeft - 1
  /\ IsFile(p)
  /\ \E t \in Later :
       /\ now' = t
       /\ mt' = [mt EXCEPT ![p] = t]
  /\ touched' = Append(touched, <<run, p, {tasks[i] : i \in Unwaited}>>)
  /\ UNCHANGED <<cfg, missing, dirs, envc, wrapper, iconset, bundle, pc, tasks, waited,
                 child, exits, log, result, failed, written, eval, run, prev, orphans,
                 faultsLeft, runsLeft>>

\* The run that follows a run: the same configuration, not dry.
NextConfigs == {Without(cfg, {"dry_run"})}

\* The processes of this run that are running when main() returns or leaves
\* through process::exit (main.rs 13-18): nothing waits on them or ends them.
left_running == {<<run, k>> : k \in {j \in Kinds : child[j] = "running"}}

\* The program is started again after main() has returned, whether or not
\* the processes the last run spawned have exited.
NextRun ==
  /\ pc = "done"
  /\ runsLeft > 0
  /\ runsLeft' = runsLeft - 1
  /\ orphans' = orphans \cup left_running
  /\ \E c \in NextConfigs : cfg' = c
  /\ prev' = [cfg |-> cfg, result |-> result, failed |-> failed,
              plan |-> IF cfg.dry_run THEN log ELSE <<>>, ran |-> TRUE]
  /\ run' = run + 1
  /\ pc' = "run"
  /\ tasks' = <<>>
  /\ waited' = <<>>
  /\ child' = NoChild
  /\ exits' = <<>>
  /\ log' = <<>>
  /\ result' = "running"
  /\ failed' = "none"
  /\ written' = {}
  /\ eval' = NoEval
  /\ UNCHANGED <<missing, now, fsVars, touched, faultsLeft, touchesLeft>>

(* ------------------------------- Init --------------------------------- *)
\* One difference from the built state: a file's time or absence, a missing
\* directory, the parameter snapshot, the wrapper executable.
FilePerturbations ==
  {<<"file", f, v>> : f \in FrontendInputs \cup BackendInputs,
                      v \in {Absent, T_stamp, T_start}}
  \cup {<<"file", f, v>> : f \in Stamps, v \in {Absent, T_input, T_start}}
OtherPerturbations ==
  {<<"rmdir", d, 0>> : d \in {D_node_modules, D_dist, D_venv, D_product,
                              D_src_lib, D_favicon, D_stamps}}
  \cup {<<"env", v, 0>> : v \in {"none", "old"}}
  \cup {<<"nowrapper", "", 0>>, <<"stray", "", 0>>}
NoPerturbation == <<"none", "", 0>>
Perturbations == FilePerturbations \cup OtherPerturbations \cup {NoPerturbation}

\* The differences the runs are started on.
RunPerturbations ==
  {<<"file", f, T_start>> : f \in {F_pkg, F_src2, F_icon, F_vite_js, F_pyproj, F_app2,
                                 S_bdeps}}
  \cup {<<"file", f, Absent>> : f \in {F_lock, F_uvlock} \cup Stamps}
  \cup {<<"file", S_bbuild, T_input>>}
  \cup OtherPerturbations

Perturb(m, p) ==
  [f \in Files |->
     IF p[1] = "file" /\ f = p[2] THEN p[3]
     ELSE IF p[1] = "rmdir" /\ f \in FilesBelow(p[2]) THEN Absent
     ELSE m[f]]
PerturbDirs(d, p) == IF p[1] = "rmdir" THEN d \ Below(p[2]) ELSE d
PerturbEnv(e, p) ==
  IF p[1] = "env" THEN p[2]
  ELSE IF p[1] = "rmdir" /\ p[2] = D_stamps THEN "none" ELSE e

FewConfigs ==
  {With(DefaultConfig, {f}) : f \in Flags}
    \cup {WithIdentity(DefaultConfig, i) : i \in Identities}
PairConfigs ==
  {With(DefaultConfig, {f, g}) : f, g \in Flags}
    \cup {WithIdentity(With(DefaultConfig, {f}), DevIdentity) : f \in Flags}
    \cup FewConfigs
DryConfigs == {c \in Configs : c.dry_run}

InitProcess ==
  /\ now = T_start
  /\ tasks = <<>>
  /\ waited = <<>>
  /\ child = NoChild
  /\ exits = <<>>
  /\ log = <<>>
  /\ result = "running"
  /\ failed = "none"
  /\ written = {}
  /\ eval = NoEval
  /\ run = 1
  /\ orphans = {}
  /\ touched = <<>>
InitRun ==
  /\ InitProcess
  /\ prev = NoPrev

WarmTree ==
  /\ mt = WarmMt /\ dirs = WarmDirs /\ envc = "cur"
  /\ wrapper = TRUE /\ iconset = IconSizes /\ bundle = FullBundle
ColdTree ==
  /\ mt = ColdMt /\ dirs = ColdDirs /\ envc = "none"
  /\ wrapper = FALSE /\ iconset = 0 /\ bundle = EmptyBundle
PerturbedTree(p) ==
  /\ mt = Perturb(WarmMt, p)
  /\ dirs = PerturbDirs(WarmDirs, p)
  /\ envc = PerturbEnv("cur", p)
  /\ wrapper = (p[1] /= "nowrapper")
  /\ iconset = IconSizes
  /\ bundle = IF p[1] = "stray"
              THEN [FullBundle EXCEPT !.stray = {"backend", "webapp"}]
              ELSE FullBundle

\* One run, on a built tree and on a fresh checkout: every dry configuration,
\* and the configurations with at most two flags.
InitAnyConfig ==
  /\ cfg \in DryConfigs \cup PairConfigs
  /\ missing = {}
  /\ runsLeft = 0 /\ touchesLeft = 0 /\ faultsLeft = MaxFaults
  /\ (WarmTree \/ ColdTree)

\* One run with at most one flag on a built tree with one difference.
InitPerturbed ==
  /\ cfg \in FewConfigs
  /\ missing = {}
  /\ runsLeft = 0 /\ touchesLeft = 0 /\ faultsLeft = MaxFaults
  /\ \E p \in RunPerturbations : PerturbedTree(p)

\* One run with other names and versions than the default ones.
InitMetadata ==
  /\ cfg \in {WithMeta(c, m) : c \in FewConfigs, m \in Metas \ {DefaultMeta}}
  /\ missing = {}
  /\ runsLeft = 0 /\ touchesLeft = 0 /\ faultsLeft = MaxFaults
  /\ (WarmTree \/ ColdTree \/ PerturbedTree(<<"rmdir", D_favicon, 0>>))

\* A required command that is not installed.
InitMissingCmd ==
  /\ cfg \in FewConfigs
  /\ missing \in {{"uv"}, {"rsync"}, {"iconutil"}}
  /\ runsLeft = 0 /\ touchesLeft = 0 /\ faultsLeft = MaxFaults
  /\ (WarmTree \/ ColdTree)

\* One real run in development mode on a built tree, with every combination
\* of the other flags.
DevConfigs == {c \in Configs : c.dev_mode /\ ~c.dry_run}
InitDevMode ==
  /\ cfg \in DevConfigs
  /\ missing = {}
  /\ runsLeft = 0 /\ touchesLeft = 0 /\ faultsLeft = MaxFaults
  /\ WarmTree

\* One run started in the clock tick in which the build stamps of the run
\* before it were written, after the backend environment, its stamp or its
\* project file was changed.
SameTickPerturbations ==
  {<<"rmdir", D_venv, 0>>, <<"file", S_bdeps, Absent>>,
   <<"file", F_pyproj, T_start>>}
InitSameTick ==
  /\ cfg \in {DefaultConfig, With(DefaultConfig, {"force_backend"}),
              With(DefaultConfig, {"skip_frontend"})}
  /\ missing = {}
  /\ runsLeft = 0 /\ touchesLeft = 0 /\ faultsLeft = MaxFaults
  /\ \E p \in SameTickPerturbations :
       /\ mt = [Perturb(WarmMt, p) EXCEPT ![S_fbuild] = T_start,
                                          ![S_bbuild] = T_start]
       /\ dirs = PerturbDirs(WarmDirs, p)
       /\ envc = "cur"
       /\ wrapper = TRUE /\ iconset = IconSizes /\ bundle = FullBundle

Init ==
  /\ InitRun
  /\ pc = "run"
  /\ (InitAnyConfig \/ InitPerturbed \/ InitMetadata \/ InitMissingCmd
        \/ InitDevMode \/ InitSameTick)

\* A run that is followed by another run, with inputs edited meanwhile.
RerunConfigs ==
  {WithIdentity(DefaultConfig, DevIdentity), With(DefaultConfig, {"dry_run"}),
   With(DefaultConfig, {"dry_run", "clean"}),
   With(DefaultConfig, {"force_backend"})}
RerunPerturbations ==
  {<<"rmdir", D_favicon, 0>>, <<"rmdir", D_dist, 0>>, <<"rmdir", D_product, 0>>,
   <<"file", F_pyproj, T_start>>, <<"file", F_src2, T_start>>}
InitRepeated ==
  /\ InitRun
  /\ pc = "run"
  /\ cfg \in RerunConfigs
  /\ missing = {}
  /\ runsLeft = MaxRuns - 1
  /\ faultsLeft = MaxFaults
  /\ \/ ColdTree
     \/ \E p \in RerunPerturbations : PerturbedTree(p)
InitRerun == InitRepeated /\ touchesLeft = MaxTouches

\* Runs in a row on a tree nobody edits.
InitTwice == InitRepeated /\ touchesLeft = 0

(* ------------------------------- Next --------------------------------- *)
Next ==
  \/ RunStart
  \/ CheckToolchain
  \/ CleanAndPrepare
  \/ FrontendDeps
  \/ NpmExit
  \/ FrontendBuild
  \/ BackendDeps
  \/ UvExit
  \/ BackendBuild
  \/ SwiftBuild
  \/ PlanComplete
  \/ \E k \in Kinds : ChildExit(k)
  \/ WaitBegin
  \/ WaitTask
  \/ CheckWrapperBin
  \/ AssembleCopyWrapper
  \/ MirrorBackend
  \/ RsyncBackendExit
  \/ MirrorFrontend
  \/ RsyncFrontendExit
  \/ IconStart
  \/ SipsExit
  \/ IconutilExit
  \/ SipsIcnsExit
  \/ TouchExit
  \/ Codesign
  \/ CodesignExit

Spec == Init /\ [][Next]_vars

\* One run in which the orchestrator keeps taking its steps and every
\* external process it started exits at some time.
OrchestratorStep ==
  \/ RunStart \/ CheckToolchain \/ CleanAndPrepare
  \/ FrontendDeps \/ FrontendBuild \/ BackendDeps \/ BackendBuild
  \/ SwiftBuild \/ PlanComplete \/ WaitBegin \/ WaitTask
  \/ CheckWrapperBin
  \/ AssembleCopyWrapper \/ MirrorBackend \/ MirrorFrontend
  \/ IconStart \/ Codesign
ProcessesExit ==
  /\ WF_vars(NpmExit) /\ WF_vars(UvExit)
  /\ WF_vars(RsyncBackendExit) /\ WF_vars(RsyncFrontendExit)
  /\ WF_vars(SipsExit) /\ WF_vars(IconutilExit) /\ WF_vars(SipsIcnsExit)
  /\ WF_vars(TouchExit) /\ WF_vars(CodesignExit)
  /\ \A k \in Kinds : WF_vars(ChildExit(k))
SpecLive == Init /\ [][Next]_vars /\ WF_vars(OrchestratorStep) /\ ProcessesExit

\* The processes an earlier run can have left running.
Orphans == (1..MaxRuns) \X Kinds

NextRerun ==
  \/ Next
  \/ \E p \in TouchPaths : Touch(p)
  \/ NextRun
  \/ \E o \in Orphans : OrphanExit(o)

SpecRerun == InitRerun /\ [][NextRerun]_vars

NextTwice ==
  \/ Next
  \/ NextRun
  \/ \E o \in Orphans : OrphanExit(o)

SpecTwice == InitTwice /\ [][NextTwice]_vars

(* ------------- two runs that differ in force_swift only --------------- *)
\* The program is run, the tree is put back as it was, and the program is run
\* again with FORCE_SWIFT the other way round; prev keeps the configuration
\* and the tree of the start and what the first run did. The second run
\* starts once main() has returned, whether or not the processes the first
\* run spawned have exited (main.rs 13-18); those write into the tree of the
\* second run when they exit.
ToggleConfigs == FewConfigs \cup {With(DefaultConfig, {"force_swift", "skip_swift"})}
\* A built tree from which node_modules and the two build outputs were
\* removed: the stamps are in place, so that a build output that comes back
\* makes its stage fresh again.
OutputsRemoved ==
  <<(<<"rmdir", D_node_modules, 0>>), (<<"rmdir", D_dist, 0>>),
    (<<"rmdir", D_product, 0>>)>>
OutputsRemovedTree ==
  /\ mt = Perturb(Perturb(Perturb(WarmMt, OutputsRemoved[1]),
                          OutputsRemoved[2]), OutputsRemoved[3])
  /\ dirs = PerturbDirs(PerturbDirs(PerturbDirs(WarmDirs, OutputsRemoved[1]),
                                    OutputsRemoved[2]), OutputsRemoved[3])
  /\ envc = "cur"
  /\ wrapper = TRUE /\ iconset = IconSizes /\ bundle = FullBundle
InitPair ==
  /\ InitProcess
  /\ pc = "run"
  /\ cfg \in ToggleConfigs
  /\ missing = {}
  /\ runsLeft = 1 /\ touchesLeft = 0 /\ faultsLeft = MaxFaults
  /\ \/ WarmTree
     \/ ColdTree
     \/ PerturbedTree(<<"file", F_pyproj, T_start>>)
     \/ OutputsRemovedTree
  /\ prev = [cfg |-> cfg, result |-> "none", failed |-> "none",
             plan |-> <<>>, ran |-> FALSE, tasks |-> <<>>, written |-> {},
             left |-> {},
             tree |-> <<mt, dirs, envc, wrapper, iconset, bundle>>]

RunAgainToggled ==
  /\ pc = "done"
  /\ runsLeft > 0
  /\ runsLeft' = runsLeft - 1
  /\ orphans' = orphans \cup left_running
  /\ cfg' = [prev.cfg EXCEPT !.force_swift = ~@]
  /\ prev' = [prev EXCEPT !.result = result, !.failed = failed, !.plan = log,
                          !.ran = TRUE, !.tasks = tasks, !.written = written,
                          !.left = left_running]
  /\ mt' = prev.tree[1] /\ dirs' = prev.tree[2] /\ envc' = prev.tree[3]
  /\ wrapper' = prev.tree[4] /\ iconset' = prev.tree[5]
  /\ bundle' = prev.tree[6]
  /\ now' = T_start
  /\ faultsLeft' = MaxFaults
  /\ run' = run + 1
  /\ pc' = "run"
  /\ tasks' = <<>>
  /\ waited' = <<>>
  /\ child' = NoChild
  /\ exits' = <<>>
  /\ log' = <<>>
  /\ result' = "running"
  /\ failed' = "none"
  /\ written' = {}
  /\ eval' = NoEval
  /\ UNCHANGED <<missing, touched, touchesLeft>>

NextPair ==
  \/ Next
  \/ RunAgainToggled
  \/ \E o \in Orphans : OrphanExit(o)

SpecPair == InitPair /\ [][NextPair]_vars

(* ------------------- the staleness checks on their own ---------------- *)
\* A tree with the outputs and the stamps but no input at all.
BareMt == [f \in Files |-> IF f \in Stamps THEN T_stamp ELSE Absent]
BareDirs == WarmDirs \ SourceDirs

\* Every file lies in an existing directory, every directory in an existing one.
WellFormed ==
  /\ \A f \in Files : IsFile(f) => DirOf(f) \in dirs \cup {D_root}
  /\ \A d \in dirs : ParentDir(d) \in dirs \cup {D_root}
  /\ envc /= "none" => D_stamps \in dirs

\* The built tree, or the bare one, with two differences.
InitOracle ==
  /\ InitRun
  /\ pc = "oracle"
  /\ cfg = DefaultConfig
  /\ missing = {}
  /\ runsLeft = 0 /\ touchesLeft = 0 /\ faultsLeft = 0
  /\ wrapper = TRUE /\ iconset = IconSizes /\ bundle = FullBundle
  /\ \E base \in {"warm", "bare"}, p \in Perturbations, q \in Perturbations :
       /\ mt = Perturb(Perturb(IF base = "warm" THEN WarmMt ELSE BareMt, p), q)
       /\ dirs = PerturbDirs(PerturbDirs(IF base = "warm" THEN WarmDirs
                                         ELSE BareDirs, p), q)
       /\ envc = PerturbEnv(PerturbEnv("cur", p), q)
  /\ WellFormed

\* The check of one stage is computed on the tree as it is.
OracleEval(s) ==
  /\ pc = "oracle"
  /\ eval[s] = "unevaluated"
  /\ eval' = [eval EXCEPT ![s] = Verdict(s)]
  /\ UNCHANGED <<cfg, missing, now, fsVars, pc, tasks, waited, child, exits,
                 log, result, failed, written, run, prev, orphans, touched, budget>>

NextOracle == \E s \in Stages : OracleEval(s)

SpecOracle == InitOracle /\ [][NextOracle]_vars

(* ------------------------------ properties ---------------------------- *)
InLog(e) == \E i \in 1..Len(log) : log[i] = e
Pos(seq, x) == CHOOSE i \in 1..Len(seq) : seq[i] = x
Registered(k) == \E i \in 1..Len(tasks) : tasks[i] = k
Waited(k) == \E i \in 1..Len(waited) : waited[i] = k

\* C1: a build stamp or the frontend parameter snapshot is written by this
\* run only if the stage's process was waited on and exited successfully;
\* a stage whose process failed has neither.
StampOnlyAfterSuccess ==
  /\ S_fbuild \in written => Waited("fe") /\ child["fe"] = "ok"
  /\ F_env \in written => Waited("fe") /\ child["fe"] = "ok"
  /\ S_bbuild \in written => Waited("be") /\ child["be"] = "ok"
  /\ \A k \in {"fe", "be"} :
       child[k] /= "ok" =>
         StampOf(k) \notin written /\ ~InLog(<<"finalize", k>>)

\* The frontend build succeeded and was stamped, the backend build failed and
\* was not.
StampOnlyAfterSuccessWitness ==
  /\ ~cfg.dry_run
  /\ child["fe"] = "ok" /\ {S_fbuild, F_env} \subseteq written
  /\ child["be"] = "fail" /\ Waited("be") /\ S_bbuild \notin written

\* C2: when the failure of a task B is surfaced, every task registered before
\* B has been waited on, reported and (if it has a stamp) stamped, however
\* early B exited.
EarlierFinalizedBeforeFailure ==
  result = "TaskFailed" =>
    \A i \in 1..Len(tasks) :
      i < Pos(tasks, failed) =>
        /\ Waited(tasks[i])
        /\ child[tasks[i]] = "ok"
        /\ InLog(<<"finalize", tasks[i]>>)
        /\ tasks[i] \in {"fe", "be"} => StampOf(tasks[i]) \in written
        /\ Pos(log, <<"finalize", tasks[i]>>) < Pos(log, <<"wait", failed>>)

\* The backend build exited with a failure before the frontend build exited
\* with success; the frontend was stamped, then the backend failure surfaced.
EarlierFinalizedBeforeFailureWitness ==
  /\ tasks = <<"fe", "be", "sw">>
  /\ Len(exits) >= 2 /\ exits[1] = "be" /\ exits[2] = "fe"
  /\ child["be"] = "fail"
  /\ result = "TaskFailed" /\ failed = "be"
  /\ S_fbuild \in written

\* C3: tasks are waited on and finalized strictly in registration order
\* (frontend, backend, wrapper), whatever the order in which they exit.
RegistrationOrder == <<"fe", "be", "sw">>
Rank(k) == Pos(RegistrationOrder, k)
Finalized == SelectSeq(log, LAMBDA e : e[1] = "finalize")
WaitInRegistrationOrder ==
  /\ \A i, j \in 1..Len(tasks) : i < j => Rank(tasks[i]) < Rank(tasks[j])
  /\ Len(waited) <= Len(tasks)
  /\ \A i \in 1..Len(waited) : waited[i] = tasks[i]
  /\ Len(Finalized) <= Len(waited)
  /\ \A i \in 1..Len(Finalized) : Finalized[i][2] = waited[i]

\* The three processes exited in the reverse of the registration order and
\* all three were waited on.
WaitInRegistrationOrderWitness ==
  /\ tasks = <<"fe", "be", "sw">>
  /\ exits = <<"sw", "be", "fe">>
  /\ waited = tasks
  /\ Len(Finalized) = 3

\* C4: a task that exited with a failure ends the run at once with an error
\* naming it; the tasks registered after it are neither waited on nor
\* finalized and get no stamp, even if they succeed, and nothing ends them.
FailureAbortsLaterTasks ==
  result = "TaskFailed" =>
    /\ pc = "done"
    /\ Registered(failed) /\ child[failed] = "fail"
    /\ waited[Len(waited)] = failed
    /\ \A j \in 1..Len(tasks) :
         j > Pos(tasks, failed) =>
           /\ ~Waited(tasks[j])
           /\ ~InLog(<<"wait", tasks[j]>>)
           /\ ~InLog(<<"finalize", tasks[j]>>)
           /\ tasks[j] \in {"fe", "be"} => StampOf(tasks[j]) \notin written
           /\ child[tasks[j]] \in {"running", "ok", "fail"}

\* The frontend build failed; the backend build, registered after it, went
\* on to succeed and has no stamp of this run.
FailureAbortsLaterTasksWitness ==
  /\ result = "TaskFailed" /\ failed = "fe"
  /\ tasks = <<"fe", "be", "sw">>
  /\ child["be"] = "ok" /\ child["sw"] = "ok"
  /\ waited = <<"fe">>
  /\ S_bbuild \notin written

(* What the staleness checks look at. *)
StampFile(s) ==
  CASE s = "fdeps" -> S_fdeps
    [] s = "fbuild" -> S_fbuild
    [] s = "bdeps" -> S_bdeps
    [] s = "bbuild" -> S_bbuild
OutputDir(s) ==
  CASE s = "fdeps" -> D_node_modules
    [] s = "fbuild" -> D_dist
    [] s = "bdeps" -> D_venv
    [] s = "bbuild" -> D_product
Watched(s) ==
  CASE s = "fdeps" -> {F_pkg, F_lock}
    [] s = "fbuild" -> FrontendInputs
    [] s = "bdeps" -> {F_pyproj, F_uvlock}
    [] s = "bbuild" -> {F_entry, F_app1, F_app2}
NoWatchedNewer(s) ==
  \A f \in Watched(s) : IsFile(f) => mt[f] <= mt[StampFile(s)]
SnapshotMatches(s) == s = "fbuild" => envc = "cur"

\* C5 as stated: a stamp that exists, no watched file strictly newer than it
\* and (frontend build) a matching snapshot make the stage fresh.
FreshWhenStampNotOlder ==
  \A s \in Stages :
    (/\ eval[s] /= "unevaluated"
     /\ IsFile(StampFile(s))
     /\ NoWatchedNewer(s)
     /\ SnapshotMatches(s)) => eval[s] = "fresh"

\* C5, amended: the same, for a stage whose output directory exists and, for
\* the backend build, whose dependency stamp is not newer than its own stamp.
FreshWhenStampNotOlderAndOutputExists ==
  \A s \in Stages :
    (/\ eval[s] /= "unevaluated"
     /\ IsFile(StampFile(s))
     /\ NoWatchedNewer(s)
     /\ SnapshotMatches(s)
     /\ IsDir(OutputDir(s))
     /\ s = "bbuild" => ~(IsFile(S_bdeps) /\ mt[S_bdeps] > mt[S_bbuild]))
    => eval[s] = "fresh"

\* The frontend build was found fresh with a source file exactly as old as
\* its stamp.
FreshWhenStampNotOlderWitness ==
  /\ pc = "oracle"
  /\ eval["fbuild"] = "fresh"
  /\ mt[F_src2] = mt[S_fbuild]
  /\ eval["bbuild"] = "fresh"
  /\ mt[F_app2] = mt[S_bbuild]

\* C6: a stage whose stamp does not exist is stale, whatever else holds.
StaleWhenStampAbsent ==
  \A s \in Stages :
    eval[s] /= "unevaluated" /\ ~IsFile(StampFile(s)) => eval[s] = "stale"

\* The backend dependencies were found stale with no stamp, although the
\* environment exists and no input file does.
StaleWhenStampAbsentWitness ==
  /\ pc = "oracle"
  /\ eval["bdeps"] = "stale"
  /\ ~IsFile(S_bdeps)
  /\ IsDir(D_venv)
  /\ ~IsFile(F_pyproj) /\ ~IsFile(F_uvlock)

\* The positions inside build_app_icon, and the ones from there to signing.
IconPcs == {"icon", "sips_wait", "iconutil_wait", "sips_icns_wait"}
MetadataPcs == {"touch_wait", "codesign"}

\* The pipeline has got past the launch of the build processes.
PastLaunch ==
  \/ pc \in {"wait", "task_wait", "assemble", "mirror_be", "rsync_be_wait",
             "mirror_fe", "rsync_fe_wait", "codesign_wait"} \cup IconPcs \cup MetadataPcs
  \/ pc = "done" /\ result \in {"ok", "TaskFailed", "MissingArtifact",
                                "FilesystemError"}
  \/ pc = "done" /\ result = "CommandFailed"
       /\ failed \in {"rsync", "codesign", "icon", "sips"}

\* C7: a stage that is not skipped and whose forced flag is set issues its
\* command, whatever its staleness verdict; a real run launches the build.
ForcedStageIsBuilt ==
  /\ cfg.force_frontend /\ eval["fdeps"] /= "unevaluated"
       => InLog(<<"cmd", "npm_ci">>) \/ InLog(<<"cmd", "npm_install">>)
  /\ cfg.force_frontend /\ eval["fbuild"] /= "unevaluated"
       => /\ InLog(<<"cmd", "npm_run_build">>)
          /\ ~cfg.dry_run => Registered("fe")
  /\ cfg.force_backend /\ eval["bdeps"] /= "unevaluated"
       => InLog(<<"cmd", "uv_sync_frozen">>) \/ InLog(<<"cmd", "uv_sync">>)
  /\ cfg.force_backend /\ eval["bbuild"] /= "unevaluated"
       => /\ InLog(<<"cmd", "pyinstaller">>)
          /\ ~cfg.dry_run => Registered("be")
  /\ cfg.force_swift /\ ~cfg.skip_swift /\ PastLaunch
       => /\ InLog(<<"cmd", "swift_build">>)
          /\ ~cfg.dry_run => Registered("sw")
  /\ PastLaunch =>
       /\ ~cfg.skip_frontend => eval["fbuild"] /= "unevaluated"
       /\ ~cfg.skip_backend => eval["bbuild"] /= "unevaluated"

\* A forced frontend build was launched although the check found it fresh.
ForcedStageIsBuiltWitness ==
  /\ cfg.force_frontend /\ ~cfg.dry_run
  /\ eval["fbuild"] = "fresh" /\ eval["fdeps"] = "fresh"
  /\ Registered("fe")
  /\ IsDir(D_dist) /\ envc = "cur"
  /\ result = "ok"

(* Two runs in a row. *)
FullConfig(c) ==
  /\ ~c.clean /\ ~c.dry_run /\ ~c.dev_mode
  /\ ~c.skip_frontend /\ ~c.skip_backend /\ ~c.skip_swift
  /\ ~c.force_frontend /\ ~c.force_backend /\ ~c.force_swift
SecondFullRunUnchanged ==
  /\ run > 1
  /\ prev.ran /\ prev.result = "ok" /\ FullConfig(prev.cfg)
  /\ FullConfig(cfg)
  /\ touched = <<>>
BuildCmds == {"npm_ci", "npm_install", "npm_run_build", "uv_sync_frozen",
              "uv_sync", "pyinstaller", "swift_build"}
CmdsIn(l) == {l[i][2] : i \in {j \in 1..Len(l) : l[j][1] = "cmd"}}

\* C8 as stated: the second of two full runs with nothing changed issues no
\* frontend, backend or wrapper build command and registers no task.
SecondRunBuildsNothing ==
  SecondFullRunUnchanged =>
    /\ CmdsIn(log) \cap BuildCmds = {}
    /\ tasks = <<>>

\* C8, amended: the second run issues no frontend or backend dependency or
\* build command and finds the four stages fresh; the wrapper build, which
\* has no staleness check, is launched and is the only task registered.
SecondRunBuildsOnlyWrapper ==
  SecondFullRunUnchanged =>
    /\ CmdsIn(log) \cap BuildCmds \subseteq {"swift_build"}
    /\ \A s \in Stages : eval[s] /= "stale"
    /\ \A i \in 1..Len(tasks) : tasks[i] = "sw"
    /\ written = {}
    /\ PastLaunch => tasks = <<"sw">> /\ InLog(<<"cmd", "swift_build">>)

\* The second run went through re-assembly and ended well after a first run
\* that had built everything from a fresh checkout.
SecondRunBuildsOnlyWrapperWitness ==
  /\ SecondFullRunUnchanged
  /\ pc = "done" /\ result = "ok"
  /\ tasks = <<"sw">>
  /\ InLog(<<"asm", "rsync_frontend">>)
  /\ \A s \in Stages : eval[s] = "fresh" /\ mt[StampFile(s)] >= T_start
  /\ mt[S_bdeps] = mt[S_bbuild]

\* C9: a step of a dry run leaves the filesystem as it is, spawns no process,
\* blocks on no command and leaves the task list empty.
DryRunChangesNothing ==
  [][cfg.dry_run =>
       /\ UNCHANGED fsVars
       /\ child' = NoChild
       /\ tasks' = <<>>
       /\ written' = {}
       /\ pc' \notin BlockedPcs]_vars

\* A dry run with clean set has announced the removal and its commands and
\* returned, on a checkout whose work directory does not exist.
DryRunChangesNothingWitness ==
  /\ cfg.dry_run /\ cfg.clean
  /\ pc = "done" /\ result = "ok"
  /\ D_work \notin dirs /\ D_out \notin dirs
  /\ InLog(<<"clean", "rm_rf">>)
  /\ InLog(<<"cmd", "pyinstaller">>)
  /\ tasks = <<>>

\* The steps of a run that change the disk: cache clearing, dependency and
\* build commands, assembly copies, metadata writes, signing.
MutatingSteps(l) == SelectSeq(l, LAMBDA e : e[1] \in {"clean", "cmd", "asm"})

\* C10 as stated: the steps a dry run announced are, in order, the mutating
\* steps of the real run with the same configuration from the same state.
DryRunPlanEqualsRealRun ==
  (/\ run = 2
   /\ prev.ran /\ prev.cfg.dry_run /\ prev.result = "ok"
   /\ cfg = Without(prev.cfg, {"dry_run"})
   /\ touched = <<>>
   /\ pc = "done" /\ result = "ok")
  => prev.plan = MutatingSteps(log)

(* What the backend resource directory of the bundle holds. *)
BackendResourceEntries ==
  (IF bundle.backend = "none" THEN {} ELSE {"distribution"})
    \cup (IF bundle.webapp = "none" THEN {} ELSE {"webapp_dist"})
    \cup (IF "backend" \in bundle.stray THEN {"stray"} ELSE {})
BackendSourceEntries == IF IsDir(D_product) THEN {"distribution"} ELSE {}
Assembled == ~cfg.dry_run /\ pc = "done" /\ result = "ok"

\* C11 as stated: after a successful assembly the backend resource directory
\* holds no entry that the backend distribution lacks and is identical to it,
\* the frontend sub-path is identical to the frontend assets, and the
\* destination-only files are gone.
MirrorIdenticalToSource ==
  Assembled =>
    /\ BackendResourceEntries = BackendSourceEntries
    /\ bundle.backend = "mirror" /\ bundle.webapp = "mirror"
    /\ bundle.stray = {}

\* C11, amended: the backend resource directory is identical to the backend
\* distribution except for the frontend sub-path, which the distribution
\* lacks and which is identical to the frontend assets; the destination-only
\* files are gone.
MirrorIdenticalExceptFrontendPath ==
  Assembled =>
    /\ BackendResourceEntries \ {"webapp_dist"} = BackendSourceEntries
    /\ "webapp_dist" \in BackendResourceEntries
    /\ bundle.backend = "mirror" /\ bundle.webapp = "mirror"
    /\ bundle.stray = {}

\* An assembly that found destination-only files and removed them.
MirrorIdenticalExceptFrontendPathWitness ==
  /\ Assembled
  /\ InLog(<<"deleted", "stray">>)
  /\ bundle.stray = {}

\* C12 as stated: no failure inside icon generation ends the run; the run
\* goes on to write the metadata, without an icon.
IconNeverAborts ==
  /\ failed \notin {"icon", "sips"}
  /\ InLog(<<"asm", "rsync_frontend">>) /\ pc = "done"
       /\ ~(result = "CommandFailed" /\ failed = "rsync")
       => InLog(<<"asm", "plist">>)

\* The run waited on every task with success, came to the checks of the
\* assembly and has ended.
ReachedAssembly ==
  /\ ~cfg.dry_run
  /\ PastLaunch /\ pc = "done"
  /\ result /= "TaskFailed"

\* C13: a run that comes to the assembly with the wrapper executable, the
\* backend distribution or the frontend assets absent ends with a
\* missing-artifact error naming it (unless the copy before its check failed)
\* and never reports success, also when the stage was skipped and its output
\* never built.
MissingArtifactFails ==
  /\ Assembled => wrapper /\ IsDir(D_product) /\ IsDir(D_dist)
  /\ ReachedAssembly /\ ~wrapper
       => result = "MissingArtifact" /\ failed = "wrapper"
  /\ ReachedAssembly /\ wrapper /\ ~IsDir(D_product)
       => result = "MissingArtifact" /\ failed = "backend"
  /\ ReachedAssembly /\ wrapper /\ IsDir(D_product) /\ ~IsDir(D_dist)
       /\ ~(result = "CommandFailed" /\ failed = "rsync")
       => result = "MissingArtifact" /\ failed = "frontend"
  /\ result = "MissingArtifact" =>
       /\ pc = "done"
       /\ failed = "wrapper" => ~wrapper
       /\ failed = "backend" => ~IsDir(D_product)
       /\ failed = "frontend" => ~IsDir(D_dist)

\* The frontend stage was skipped on a tree without frontend assets: the
\* backend was mirrored, then the run ended with the missing-artifact error.
MissingArtifactFailsWitness ==
  /\ cfg.skip_frontend /\ ~cfg.dry_run
  /\ eval["fbuild"] = "unevaluated"
  /\ ~IsDir(D_dist)
  /\ InLog(<<"asm", "rsync_backend">>)
  /\ result = "MissingArtifact" /\ failed = "frontend"

IconReported(o) == InLog(<<"icon", o>>)
MetadataWritten == ~cfg.dry_run /\ InLog(<<"asm", "plist">>)

\* C14: the metadata file this run wrote holds the configured app_name,
\* bundle_id, app_version and build_number under their keys, and the icon
\* key exactly when this run's icon generation reported success.
MetadataFidelity ==
  MetadataWritten =>
    /\ bundle.plist["CFBundleName"] = cfg.app_name
    /\ bundle.plist["CFBundleIdentifier"] = cfg.bundle_id
    /\ bundle.plist["CFBundleShortVersionString"] = cfg.app_version
    /\ bundle.plist["CFBundleVersion"] = cfg.build_number
    /\ IconKey \in DOMAIN bundle.plist <=> IconReported("icns")

\* A run with its own four values and no icon source wrote the metadata
\* without the icon key, on a bundle that still holds an earlier icon file.
MetadataFidelityWitness ==
  /\ MetadataWritten
  /\ cfg.app_name = "Widget" /\ cfg.build_number = "7"
  /\ bundle.plist["CFBundleVersion"] = "7"
  /\ IconReported("no_source")
  /\ bundle.icns = "full"
  /\ IconKey \notin DOMAIN bundle.plist

\* The commands the steps of a run invoke by name.
CmdsOfTheSteps == {"npm", "node", "uv", "swift", "xcrun", "rsync"}

\* C15: when a required command is absent, no step of the run changes the
\* filesystem, writes a stamp, announces or launches anything, and the run
\* ends with the toolchain-missing error.
ToolchainMissingFailsFirst ==
  [][missing \cap CmdsOfTheSteps /= {} =>
       /\ UNCHANGED fsVars
       /\ written' = {} /\ log' = <<>>
       /\ child' = NoChild /\ tasks' = <<>>
       /\ \A s \in Stages : eval'[s] = "unevaluated"
       /\ pc' = "done" => result' = "ToolchainMissing" /\ failed' \in missing
       /\ result' /= "ok"]_vars

\* A run with clean set on a built tree ended with the toolchain-missing
\* error for the command of the last step, with the work directory and the
\* stamps still there.
ToolchainMissingFailsFirstWitness ==
  /\ missing = {"rsync"}
  /\ cfg.clean /\ ~cfg.dry_run
  /\ pc = "done" /\ result = "ToolchainMissing" /\ failed = "rsync"
  /\ D_work \in dirs /\ IsFile(S_fbuild)

BuildStage(k) == IF k = "fe" THEN "fbuild" ELSE "bbuild"
BuildCmd(k) ==
  CASE k = "fe" -> "npm_run_build"
    [] k = "be" -> "pyinstaller"
    [] k = "sw" -> "swift_build"
Forced(c, k) ==
  CASE k = "fe" -> c.force_frontend
    [] k = "be" -> c.force_backend
    [] k = "sw" -> c.force_swift
Skipped(c, k) ==
  CASE k = "fe" -> c.skip_frontend
    [] k = "be" -> c.skip_backend
    [] k = "sw" -> c.skip_swift

\* C16 as stated: the run that follows a run ended by the failure of a
\* stage's build process, with the stage not skipped, finds the stage stale
\* and launches its build again.
FailedBuildIsRebuilt ==
  \A k \in {"fe", "be"} :
    (/\ run > 1
     /\ prev.result = "TaskFailed" /\ prev.failed = k
     /\ ~Skipped(cfg, k)
     /\ eval[BuildStage(k)] /= "unevaluated")
    => /\ eval[BuildStage(k)] = "stale" \/ Forced(cfg, k)
       /\ InLog(<<"cmd", BuildCmd(k)>>)

(* ---------------------------- skipped stages --------------------------- *)
StageChecks(k) ==
  CASE k = "fe" -> {"fdeps", "fbuild"}
    [] k = "be" -> {"bdeps", "bbuild"}
    [] k = "sw" -> {}
StageCmds(k) ==
  CASE k = "fe" -> {"npm_ci", "npm_install", "npm_run_build"}
    [] k = "be" -> {"uv_sync_frozen", "uv_sync", "pyinstaller"}
    [] k = "sw" -> {"swift_build"}
StageFiles(k) ==
  CASE k = "fe" -> {S_fdeps, S_fbuild, F_env}
    [] k = "be" -> {S_bdeps, S_bbuild}
    [] k = "sw" -> {}

\* C17: a stage whose skip flag is set is never evaluated, has no command
\* launched (or printed, in a dry run), no task registered and no stamp or
\* snapshot file written, whatever the other flags are, its forced flag
\* included.
SkippedStageUntouched ==
  \A k \in Kinds :
    (pc /= "run" /\ Skipped(cfg, k))
    => /\ \A s \in StageChecks(k) : eval[s] = "unevaluated"
       /\ CmdsIn(log) \cap StageCmds(k) = {}
       /\ written \cap StageFiles(k) = {}
       /\ ~Registered(k)
       /\ child[k] = "none"

\* A run with the frontend both skipped and forced got past the launches.
SkippedStageUntouchedWitness ==
  /\ cfg.skip_frontend /\ cfg.force_frontend
  /\ PastLaunch
  /\ InLog(<<"cmd", "pyinstaller">>)

(* ---------------------------- process exit ----------------------------- *)
\* C18: the process exits 0 exactly when the run succeeded, and a failed run
\* exits non-zero having written exactly one error line.
ExitStatusAndOneErrorLine ==
  pc = "done"
  => /\ exit_status = 0 <=> result = "ok"
     /\ result /= "ok" => exit_status /= 0 /\ ErrorLines = 1

(* -------------------------- development mode --------------------------- *)
DevModeExcludedCmds ==
  {"uv_sync_frozen", "uv_sync", "pyinstaller", "swift_build", "codesign"}

\* C19: with dev_mode set the run goes on as with skip_backend and skip_swift
\* set and no signing identity: no backend dependency or build command, no
\* wrapper build command and no signing command is issued, and no backend or
\* wrapper task is registered, whatever the other flags are.
DevModeIsFrontendOnly ==
  (cfg.dev_mode /\ pc /= "run")
  => /\ cfg.skip_backend /\ cfg.skip_swift
     /\ cfg.codesign_identity = NoIdentity
     /\ CmdsIn(log) \cap DevModeExcludedCmds = {}
     /\ ~Registered("be") /\ ~Registered("sw")
     /\ child["be"] = "none" /\ child["sw"] = "none"

\* A development-mode run with the backend and the wrapper forced ended well
\* after rebuilding the frontend.
DevModeIsFrontendOnlyWitness ==
  /\ cfg.dev_mode /\ cfg.force_backend /\ cfg.force_swift /\ cfg.force_frontend
  /\ ~cfg.dry_run
  /\ pc = "done" /\ result = "ok"
  /\ InLog(<<"cmd", "npm_run_build">>)

(* ------------------------------- clean --------------------------------- *)
NoSkip(c) == ~c.skip_frontend /\ ~c.skip_backend /\ ~c.skip_swift
PastClean == pc \notin {"run", "toolchain", "clean"} /\ result /= "ToolchainMissing"
NpmCmds == {"npm_ci", "npm_install"}
UvCmds == {"uv_sync_frozen", "uv_sync"}

\* C20: in a real run with clean set and no stage skipped, the removal comes
\* before every staleness decision: every stamp that exists was written by
\* this run, the bundle is empty until this run assembles it, every check that
\* was evaluated found its stage stale and issued its command, and a run that
\* got past the launches has launched the five of them.
CleanRebuildsEverything ==
  (cfg.clean /\ ~cfg.dry_run /\ NoSkip(cfg) /\ PastClean)
  => /\ log[1] = <<"clean", "rm_rf">>
     /\ \A f \in Stamps : IsFile(f) => f \in written
     /\ envc /= "none" => F_env \in written
     /\ ~InLog(<<"asm", "copy_wrapper">>) => bundle = EmptyBundle
     /\ \A s \in Stages : eval[s] \in {"unevaluated", "stale"}
     /\ eval["fdeps"] = "stale" => CmdsIn(log) \cap NpmCmds /= {}
     /\ eval["fbuild"] = "stale" => Registered("fe")
     /\ eval["bdeps"] = "stale" => CmdsIn(log) \cap UvCmds /= {}
     /\ eval["bbuild"] = "stale" => Registered("be")
     /\ PastLaunch
          => /\ \A s \in Stages : eval[s] = "stale"
             /\ {"npm_run_build", "pyinstaller", "swift_build"} \subseteq CmdsIn(log)
             /\ Registered("fe") /\ Registered("be") /\ Registered("sw")

\* A clean run ended well with every stamp rewritten and the five commands
\* issued.
CleanRebuildsEverythingWitness ==
  /\ cfg.clean /\ ~cfg.dry_run /\ NoSkip(cfg)
  /\ pc = "done" /\ result = "ok"
  /\ Stamps \subseteq written
  /\ {"npm_ci", "npm_run_build", "uv_sync_frozen", "pyinstaller", "swift_build"}
       \subseteq CmdsIn(log)

(* ------------------------------ assembly ------------------------------- *)
AssemblyPcs ==
  {"assemble", "mirror_be", "rsync_be_wait", "mirror_fe", "rsync_fe_wait",
   "codesign_wait"} \cup IconPcs \cup MetadataPcs
AssemblySteps ==
  SelectSeq(log, LAMBDA e : e[1] \in {"asm", "icon", "deleted"}
                            \/ e = <<"cmd", "codesign">>)
AssemblyBegun == pc \in AssemblyPcs \/ AssemblySteps /= <<>>
StageFailed ==
  \/ \E k \in Kinds : child[k] = "fail" /\ Waited(k)
  \/ result = "TaskFailed"
  \/ result = "CommandFailed" /\ failed \in {"npm", "uv"}

\* C21: once an assembly step is being taken or has been taken, every
\* registered task has been waited on, has succeeded and has been finalized,
\* and no stage has failed; a run in which a stage failed takes no assembly
\* step.
AssemblyOnlyAfterStagesResolved ==
  AssemblyBegun
  => /\ \A k \in Kinds :
          Registered(k) => /\ Waited(k) /\ child[k] = "ok"
                           /\ InLog(<<"finalize", k>>)
     /\ \A k \in Kinds : child[k] \in {"none", "ok"}
     /\ ~StageFailed

\* The wrapper is about to be copied after three tasks were finalized, the
\* first registered having exited last.
AssemblyOnlyAfterStagesResolvedWitness ==
  /\ pc = "assemble"
  /\ tasks = <<"fe", "be", "sw">>
  /\ exits = <<"sw", "be", "fe">>

\* The assembly steps of main.rs 727-816 in the order of the text.
AssemblyOrder ==
  <<"copy_wrapper", "rsync_backend", "rsync_frontend", "icon", "plist",
    "pkginfo", "codesign">>
StepName(e) ==
  IF e[1] = "icon" THEN "icon" ELSE IF e[1] = "cmd" THEN "codesign" ELSE e[2]
StepsTaken ==
  LET l == SelectSeq(AssemblySteps, LAMBDA e : e[1] /= "deleted")
  IN  [i \in 1..Len(l) |-> StepName(l[i])]
IsPrefix(a, b) == Len(a) <= Len(b) /\ \A i \in 1..Len(a) : a[i] = b[i]
LastStep == IF StepsTaken = <<>> THEN "none" ELSE StepsTaken[Len(StepsTaken)]

\* C22: the assembly steps of a run are taken in the fixed order copy
\* wrapper, mirror backend, mirror frontend, icon, metadata file, type
\* marker, signing, each after the one before it returned, and a step that
\* failed is the last step of the run.
AssemblyInFixedOrder ==
  /\ IsPrefix(StepsTaken, AssemblyOrder)
  /\ pc = "rsync_be_wait" => LastStep = "rsync_backend"
  /\ pc = "mirror_fe" => LastStep = "rsync_backend" /\ bundle.backend = "mirror"
  /\ pc = "rsync_fe_wait" => LastStep = "rsync_frontend"
  /\ pc \in IconPcs => LastStep = "rsync_frontend" /\ bundle.webapp = "mirror"
  /\ pc \in MetadataPcs => LastStep = "pkginfo"
  /\ pc = "codesign_wait" => LastStep = "codesign"
  /\ (pc = "done" /\ result = "MissingArtifact")
       => LastStep = (IF failed = "wrapper" THEN "none"
                      ELSE IF failed = "backend" THEN "copy_wrapper"
                      ELSE "rsync_backend")
  /\ (pc = "done" /\ result = "CommandFailed" /\ failed = "rsync")
       => LastStep \in {"rsync_backend", "rsync_frontend"}
  /\ (pc = "done" /\ failed \in {"icon", "sips"}) => LastStep = "icon"
  /\ (pc = "done" /\ failed = "codesign")
       => LastStep = "codesign"
  /\ (pc = "done" /\ result = "ok" /\ ~cfg.dry_run)
       => LastStep = IF codesign_requested THEN "codesign" ELSE "pkginfo"

\* A signed run went through the seven steps.
AssemblyInFixedOrderWitness ==
  /\ pc = "done" /\ result = "ok"
  /\ StepsTaken = AssemblyOrder
  /\ bundle.signed

(* ------------------------------ launches ------------------------------- *)
LaunchPcs == {"fe_deps", "npm_wait", "fe_build", "be_deps", "uv_wait",
              "be_build", "swift"}
NotLaunched(k) ==
  \/ Skipped(cfg, k)
  \/ k /= "sw" /\ eval[BuildStage(k)] = "fresh" /\ ~Forced(cfg, k)

\* C23: the build processes are spawned in the order frontend, backend,
\* wrapper; a stage spawned without an earlier one means the earlier one was
\* skipped or found fresh; and until the last launch is decided the run has
\* waited on no task, so an earlier process may still be running when a later
\* one is spawned.
LaunchOrderFixed ==
  /\ \A i, j \in 1..Len(tasks) : i < j => Rank(tasks[i]) < Rank(tasks[j])
  /\ \A k \in Kinds : child[k] /= "none" <=> Registered(k)
  /\ \A k, l \in Kinds :
       (Rank(k) < Rank(l) /\ Registered(l) /\ ~Registered(k)) => NotLaunched(k)
  /\ pc \in LaunchPcs => waited = <<>>
  /\ CmdsIn(log) \cap {"pyinstaller"} /= {} /\ ~cfg.skip_frontend
       => eval["fbuild"] /= "unevaluated"

\* The three build processes are running at the same time.
LaunchOrderFixedWitness ==
  /\ tasks = <<"fe", "be", "sw">>
  /\ \A k \in Kinds : child[k] = "running"
  /\ pc = "wait"

(* ----------------------- synchronous commands -------------------------- *)
DepFailed(c) == result = "CommandFailed" /\ failed = c

\* C24: when the frontend install or the backend sync exits non-zero the run
\* is over: the stamp of that step is not written, no later check is
\* evaluated and no later command issued, the tasks already spawned are
\* neither waited on nor finalized, their stamps are not written, and no
\* assembly step is taken.
DepFailureAbortsAtOnce ==
  /\ (DepFailed("npm") \/ DepFailed("uv"))
       => /\ pc = "done"
          /\ waited = <<>> /\ Finalized = <<>>
          /\ written \cap {S_fbuild, S_bbuild, F_env} = {}
          /\ AssemblySteps = <<>>
          /\ ~Registered("be") /\ ~Registered("sw")
          /\ CmdsIn(log) \cap {"pyinstaller", "swift_build", "codesign"} = {}
          /\ eval["bbuild"] = "unevaluated"
  /\ DepFailed("npm")
       => /\ S_fdeps \notin written /\ written = {}
          /\ tasks = <<>>
          /\ CmdsIn(log) \subseteq NpmCmds
          /\ \A s \in Stages \ {"fdeps"} : eval[s] = "unevaluated"
  /\ DepFailed("uv")
       => /\ S_bdeps \notin written
          /\ CmdsIn(log) \cap UvCmds /= {}

\* The backend sync failed while the frontend build, spawned before it, ran
\* to a successful exit that nobody will finalize.
DepFailureAbortsAtOnceWitness ==
  /\ DepFailed("uv")
  /\ tasks = <<"fe">> /\ child["fe"] = "ok"
  /\ S_fbuild \notin written

(* ----------------------------- termination ----------------------------- *)
\* The task the wait loop is blocked on: the first one in registration order
\* that has not been waited on, while its process is still running.
BlockedOnTask ==
  /\ pc = "task_wait"
  /\ \E i \in 1..Len(tasks) :
       /\ \A j \in 1..Len(waited) : waited[j] /= tasks[i]
       /\ \A j \in 1..(i - 1) : Waited(tasks[j])
       /\ child[tasks[i]] = "running"
BlockedOnCommand ==
  pc \in BlockedPcs \ {"task_wait"}
RunEnded == pc = "done" /\ result \in Failures \cup {"ok"}
NoProgress ==
  /\ waited' = waited /\ log' = log /\ written' = written
  /\ result' = result /\ failed' = failed /\ eval' = eval /\ tasks' = tasks

\* C25: when every external process exits at some time, every run ends with
\* success or with an error; and a step taken while the wait loop is blocked
\* on a running process waits on no task, finalizes none, surfaces no
\* failure and starts no assembly.
TerminatesAndBlocksOnHungProcess ==
  /\ <>RunEnded
  /\ [][BlockedOnTask => NoProgress /\ pc' = pc]_vars
  /\ [][(BlockedOnCommand /\ pc' = pc /\ iconset' = iconset) => NoProgress]_vars

\* The wait loop is blocked on the frontend build while the two tasks
\* registered after it have exited, one of them with a failure.
TerminatesAndBlocksOnHungProcessWitness ==
  /\ pc = "task_wait"
  /\ log[Len(log)] = <<"wait", "fe">>
  /\ tasks = <<"fe", "be", "sw">> /\ waited = <<>>
  /\ child["fe"] = "running" /\ child["be"] = "fail" /\ child["sw"] = "ok"

(* ----------------------------- no retries ------------------------------ *)
Count(l, S) == Cardinality({i \in 1..Len(l) : l[i][1] = "cmd" /\ l[i][2] \in S})
NoDuplicates(q) == \A i, j \in 1..Len(q) : q[i] = q[j] => i = j

\* C26: within one run each of the five stage commands is issued at most
\* once, each build process is registered, exits and is waited on at most
\* once, and a command that failed is not issued again.
EachCommandAtMostOnce ==
  /\ Count(log, NpmCmds) <= 1
  /\ Count(log, {"npm_run_build"}) <= 1
  /\ Count(log, UvCmds) <= 1
  /\ Count(log, {"pyinstaller"}) <= 1
  /\ Count(log, {"swift_build"}) <= 1
  /\ NoDuplicates(tasks) /\ NoDuplicates(exits) /\ NoDuplicates(waited)
  /\ result \in Failures => pc = "done"

\* The five commands were issued, the backend build failed and the run ended
\* on it.
EachCommandAtMostOnceWitness ==
  /\ Count(log, NpmCmds \cup UvCmds) = 2
  /\ tasks = <<"fe", "be", "sw">>
  /\ result = "TaskFailed" /\ failed = "be"

(* ------------------------- staleness, if-part -------------------------- *)
SomeWatchedNewer(s) ==
  \E f \in Watched(s) : IsFile(f) /\ mt[f] > mt[StampFile(s)]
SnapshotDiffers(s) == s = "fbuild" /\ envc \notin {"none", "cur"}

\* C27: the check of a stage answers stale whenever the stage's output
\* directory is absent, or its stamp is absent, or a watched file, at any
\* depth under a watched directory, is strictly newer than the stamp, or the
\* recorded parameter snapshot exists and differs from the current one.
StaleWhenAnyReasonHolds ==
  \A s \in Stages :
    (/\ eval[s] /= "unevaluated"
     /\ \/ ~IsDir(OutputDir(s))
        \/ ~IsFile(StampFile(s))
        \/ SomeWatchedNewer(s)
        \/ SnapshotDiffers(s))
    => eval[s] = "stale"

\* The frontend build is stale for the one reason that a file two levels
\* below a watched directory is newer than the stamp.
StaleWhenAnyReasonHoldsWitness ==
  /\ eval["fbuild"] = "stale"
  /\ IsDir(D_dist) /\ IsFile(S_fbuild) /\ envc = "cur"
  /\ mt[F_src2] > mt[S_fbuild]
  /\ \A f \in Watched("fbuild") \ {F_src2} : IsFile(f) => mt[f] <= mt[S_fbuild]

(* ------------------------------- signing ------------------------------- *)
SigningInvoked == InLog(<<"cmd", "codesign">>)
RunCompleted == pc = "done" /\ ~cfg.dry_run /\ result = "ok"
SigningIsLast ==
  SigningInvoked
  => /\ log[Len(log)] = <<"cmd", "codesign">>
     /\ InLog(<<"asm", "plist">>) /\ InLog(<<"asm", "pkginfo">>)
     /\ Pos(log, <<"asm", "pkginfo">>) < Pos(log, <<"cmd", "codesign">>)
     /\ bundle.pkginfo /\ bundle.plist /= NoPlist
SigningFailureFails ==
  /\ (pc = "done" /\ failed = "codesign")
       => result = "CommandFailed" /\ exit_status = 1 /\ ~bundle.signed
  /\ (RunCompleted /\ SigningInvoked) => bundle.signed

\* C28 as stated: a run that comes to the signing step invokes the signing
\* command exactly when the configured identity is not the empty string;
\* signing is the last step, after the metadata file and the type marker, and
\* its failure fails the run.
SigningIffIdentityNonEmpty ==
  /\ SigningInvoked => cfg.codesign_identity /= <<>>
  /\ RunCompleted => (SigningInvoked <=> cfg.codesign_identity /= <<>>)
  /\ SigningIsLast
  /\ SigningFailureFails

\* C28 amended: a run that comes to the signing step invokes the signing
\* command exactly when the configured identity holds something else than
\* white space; signing is the last step, after the metadata file and the
\* type marker, and its failure fails the run.
SigningIffIdentityNotBlank ==
  /\ SigningInvoked => trim(cfg.codesign_identity) /= <<>>
  /\ RunCompleted => (SigningInvoked <=> trim(cfg.codesign_identity) /= <<>>)
  /\ SigningIsLast
  /\ SigningFailureFails

\* A run with an identity written between spaces signed the bundle as its
\* last step.
SigningIffIdentityNotBlankWitness ==
  /\ RunCompleted
  /\ cfg.codesign_identity = PaddedIdentity
  /\ bundle.signed
  /\ log[Len(log)] = <<"cmd", "codesign">>

(* -------------------------- edits in flight ---------------------------- *)
\* An input watched by the build of k was edited in the first run while the
\* process of k was spawned and its finalization had not been reached.
EditedInFlight(k) ==
  \E i \in 1..Len(touched) :
    /\ touched[i][1] = 1
    /\ touched[i][2] \in Watched(BuildStage(k))
    /\ k \in touched[i][3]

\* C29: when a watched input of a stage was edited while the stage's build
\* process was in flight, the next run that evaluates the stage finds it
\* stale.
InFlightEditMakesNextRunStale ==
  \A k \in {"fe", "be"} :
    (/\ run = 2
     /\ EditedInFlight(k)
     /\ eval[BuildStage(k)] /= "unevaluated")
    => eval[BuildStage(k)] = "stale"

(* ---------------------- dependencies before builds --------------------- *)
DepsStamp(k) == IF k = "fe" THEN S_fdeps ELSE S_bdeps
DepsCmds(k) == IF k = "fe" THEN NpmCmds ELSE UvCmds
DepsWait(k) == IF k = "fe" THEN "npm_wait" ELSE "uv_wait"
DepsIssued(k) == CmdsIn(log) \cap DepsCmds(k) /= {}

\* C30: a build process is spawned only after the dependency command of its
\* stage, when the run issued one, has returned successfully and its stamp
\* has been written in this run; while a dependency command runs, the build
\* of its own stage has not been spawned.
BuildAfterOwnDeps ==
  \A k \in {"fe", "be"} :
    /\ (Registered(k) /\ DepsIssued(k))
         => /\ DepsStamp(k) \in written
            /\ InLog(<<"stamp", DepsStamp(k)>>)
            /\ Pos(log, <<"stamp", DepsStamp(k)>>)
                 < Pos(log, <<"cmd", BuildCmd(k)>>)
    /\ pc = DepsWait(k) => child[k] = "none" /\ ~Registered(k)
    /\ (DepsIssued(k) /\ DepsStamp(k) \notin written) => ~Registered(k)

\* The backend sync is running while the frontend build, spawned after the
\* frontend install of this run, is running too.
BuildAfterOwnDepsWitness ==
  /\ pc = "uv_wait"
  /\ child["fe"] = "running"
  /\ S_fdeps \in written

(* ------------------- backend sync, then backend build ------------------ *)
SyncStamped == ~cfg.dry_run /\ ~cfg.skip_backend /\ S_bdeps \in written

\* C31: in a real run with the backend not skipped, once the backend sync has
\* run and written its stamp, the backend build check of that run answers
\* stale and the build is launched.
BackendBuiltAfterSync ==
  (SyncStamped /\ eval["bbuild"] /= "unevaluated")
  => /\ eval["bbuild"] = "stale"
     /\ InLog(<<"cmd", "pyinstaller">>)
     /\ Registered("be")

(* ------------------------------ force_swift ---------------------------- *)
CmdSeq(l) == SelectSeq(l, LAMBDA e : e[1] = "cmd")
SecondOfPair ==
  /\ run = 2 /\ pc = "done" /\ prev.ran
  /\ cfg.force_swift /= prev.cfg.force_swift
SameOutcome == result = prev.result /\ failed = prev.failed

\* No process that the first run of the pair left running has exited since
\* the second run started.
Undisturbed == orphans = prev.left

CleanWithoutBackend ==
  cfg.clean /\ ~cfg.dry_run /\ (cfg.skip_backend \/ cfg.dev_mode)
EndedBeforeAssembly ==
  \/ result = "ToolchainMissing"
  \/ result = "CommandFailed" /\ failed = "npm"
  \/ result = "TaskFailed" /\ failed \in {"fe", "sw"}
  \/ result = "MissingArtifact" /\ failed = "wrapper"

\* C33: a real run with clean set and the backend skipped, which every
\* dev_mode run with clean set is, never ends in success: the backend
\* distribution went with the work directory and is not rebuilt, so a run
\* that comes to assembly creates the bundle directories, copies the wrapper
\* executable and ends there with the missing backend artifact.
CleanWithoutBackendFails ==
  CleanWithoutBackend
  => /\ result /= "ok"
     /\ pc \notin {"run", "toolchain", "clean"} => ~IsDir(D_product)
     /\ ~InLog(<<"asm", "rsync_backend">>)
     /\ pc = "done"
          => \/ EndedBeforeAssembly
             \/ /\ result = "MissingArtifact" /\ failed = "backend"
                /\ StepsTaken = <<"copy_wrapper">>
                /\ IsDir(D_bundle) /\ bundle.exe

\* A development-mode run with clean set on a built tree ended with the
\* missing backend artifact after it had copied the wrapper executable.
CleanWithoutBackendFailsWitness ==
  /\ cfg.clean /\ cfg.dev_mode /\ ~cfg.dry_run
  /\ pc = "done"
  /\ result = "MissingArtifact" /\ failed = "backend"
  /\ bundle.exe /\ IsDir(D_bundle)
  /\ InLog(<<"finalize", "fe">>)

====
